---- MODULE Spec2Model ----
(***************************************************************************)
(* The ABR orchestrator (class AbrController) of LLHLS-ABRs and the rules  *)
(* it dispatches to, as a state machine.                                   *)
(*                                                                         *)
(* Units.  Bit rates are bits/s as in the code (the ladder holds multiples *)
(* of 1000, so the code's "/ 1000.0" conversions to kbit/s are exact and   *)
(* are written \div 1000).  Media times (durations, buffer lengths,        *)
(* latencies) are tenths of a second; wall-clock delays are milliseconds;  *)
(* byte counts are bytes.  Arithmetic is over the exact rationals: a       *)
(* comparison of two quotients is written cross-multiplied.                *)
(*                                                                         *)
(* An absent object (null / undefined) is the empty sequence, a present    *)
(* one the one-element sequence holding it.                                *)
(***************************************************************************)
EXTENDS Integers, Sequences, FiniteSets, TLC

Null == <<>>
Some(x) == <<x>>
The(o) == o[1]

Max(a, b) == IF a >= b THEN a ELSE b
Min(a, b) == IF a <= b THEN a ELSE b
Abs(a) == IF a < 0 THEN 0 - a ELSE a

\* frag.sn of an initialisation segment is the string 'initSegment'; every
\* other sn is a number >= 0.
InitSegment == -1
IsStringSn(sn) == sn = InitSegment

\* hls.levels: the ladder, lowest first.
Levels ==
  << [bitrate |-> 300000,  maxBitrate |-> 300000,  codecSet |-> "avc1"],
     [bitrate |-> 750000,  maxBitrate |-> 750000,  codecSet |-> "avc1"],
     [bitrate |-> 1500000, maxBitrate |-> 1500000, codecSet |-> "hvc1"] >>
NumLevels == Len(Levels)
LevelIds == 0 .. NumLevels - 1
\* levels[i], i counted from 0 as in the code
LevelAt(i) == Levels[i + 1]

RuleTags == {"LoLp", "L2ARule", "Llama", "StallionRule", "other"}

VARIABLES
  registered,           \* the controller's five listeners are attached to hls
  timer,                \* this.timer is set (the 100 ms interval is armed)
  fragCurrent,          \* this.fragCurrent
  partCurrent,          \* this.partCurrent
  lastLoadedFragLevel,  \* this.lastLoadedFragLevel
  _nextAutoLevel,       \* this._nextAutoLevel, -1: not forced
  bitrateTestDelay,     \* this.bitrateTestDelay, in milliseconds
  bwCanEstimate,        \* this.bwEstimator.canEstimate()
  ABRRule,              \* this.ABRRule
  lastABRRule,          \* this.lastABRRule
  l2aRule,              \* this.l2aRule
  llama,                \* this.llama
  stallionRule,         \* this.stallionRule
  out,                  \* what the last step did, as seen from outside
  hist                  \* per fragment sn: events delivered and samples taken (history)

orchVars == <<registered, timer, fragCurrent, partCurrent, lastLoadedFragLevel,
              _nextAutoLevel, bitrateTestDelay, bwCanEstimate>>
ruleVars == <<ABRRule, lastABRRule, l2aRule, llama, stallionRule>>
vars == <<orchVars, ruleVars, out, hist>>

\* ------------------------------------------------------------------------
\* What a step shows to the outside.
\*   ret      value returned by a read of nextAutoLevel (-1: the step is no read)
\*   threw    the read ended in a TypeError instead of returning
\*   samples  the bwEstimator.sample(durationMs, bytes) calls, in order
\*   abort    FRAG_LOAD_EMERGENCY_ABORTED was triggered
\*   loaderAbort  frag.loader.abort() was called
\*   nextLoadLevel  the level assigned to hls.nextLoadLevel (-1: none was)
\*   in       a tick: the environment values it read; a read that reached
\*            the rule: the level the rule decided, before the cap
Obs(op, ret, threw, samples, abort, loaderAbort, in) ==
  [op |-> op, ret |-> ret, threw |-> threw, samples |-> samples,
   abort |-> abort, loaderAbort |-> loaderAbort, nextLoadLevel |-> -1, in |-> in]
Quiet(op) == Obs(op, -1, FALSE, <<>>, FALSE, FALSE, Null)

\* EwmaBandWidthEstimator: a sample of non-positive duration is dropped, any
\* other sample is applied; canEstimate() holds once a sample was applied.
BweCanEstimateAfter(can, samples) ==
  can \/ \E k \in 1 .. Len(samples) : samples[k].durationMs > 0

\* The part of a Fragment the controller keeps in this.fragCurrent; its
\* stats, loader and bitrateTest flag are mutated by the loader and are read
\* from the environment where the code reads them.
FragRef(frag) == [sn |-> frag.sn, level |-> frag.level, duration |-> frag.duration]
PartRef(part) == IF part = Null THEN Null ELSE Some([duration |-> The(part).duration])

clearTimer == timer' = FALSE

\* the handler arming an interval for every main fragment
ArmsTimer_Again(frag) == frag.type = "main"

\* onFragLoading calls setInterval
ArmsTimer(frag) == frag.type = "main" /\ ~timer

onFragLoading(frag, part) ==
  /\ IF ArmsTimer(frag)
       THEN /\ fragCurrent' = Some(FragRef(frag))
            /\ partCurrent' = PartRef(part)
            /\ timer' = TRUE
       ELSE UNCHANGED <<fragCurrent, partCurrent, timer>>
  /\ out' = Quiet("FRAG_LOADING")
  /\ UNCHANGED <<registered, lastLoadedFragLevel, _nextAutoLevel,
                 bitrateTestDelay, bwCanEstimate>>

\* stats = part ? part.stats : frag.stats
StatsOf(frag, part) == IF part = Null THEN frag.stats ELSE The(part).stats

\* array.filter((d, i) => i > 0 && i < array.length - 1)
BoxFilter(arr) == IF Len(arr) <= 2 THEN <<>> ELSE SubSeq(arr, 2, Len(arr) - 1)

\* The bwEstimator.sample calls of one onFragBuffered run, boxThroughputOn
\* being true.
BufferedSamples(frag, part) ==
  LET stats == StatsOf(frag, part)
      fragProcessingMs == frag.stats.loadingEnd - frag.stats.loadingStart
      startData == BoxFilter(frag.stats.startTimeData)
      endData == BoxFilter(frag.stats.endTimeData)
      endTD == frag.stats.endTimeData
  IN  IF stats.aborted THEN <<>>
      ELSE IF frag.type # "main" \/ frag.sn = InitSegment THEN <<>>
      ELSE IF Len(startData) * Len(endData) > 0
        THEN << [durationMs |-> endData[Len(endData)].timestamp - startData[1],
                 bytes |-> frag.stats.boxLoaded - endTD[Len(endTD)].len] >>
        ELSE << [durationMs |-> fragProcessingMs, bytes |-> frag.stats.loaded] >>

\* this.bitrateTestDelay after one onFragBuffered run, in milliseconds
\* (the code keeps processingMs / 1000, seconds)
BufferedTestDelay(frag, part) ==
  LET stats == StatsOf(frag, part)
  IN  IF stats.aborted \/ frag.type # "main" \/ frag.sn = InitSegment
        THEN bitrateTestDelay
        ELSE IF frag.bitrateTest THEN stats.parsingEnd - stats.loadingStart ELSE 0

onFragBuffered(frag, part) ==
  /\ bwCanEstimate' = BweCanEstimateAfter(bwCanEstimate, BufferedSamples(frag, part))
  /\ bitrateTestDelay' = BufferedTestDelay(frag, part)
  /\ out' = Obs("FRAG_BUFFERED", -1, FALSE, BufferedSamples(frag, part),
                FALSE, FALSE, Null)
  /\ UNCHANGED <<registered, timer, fragCurrent, partCurrent,
                 lastLoadedFragLevel, _nextAutoLevel>>

\* the handler keeping a forced level across a loaded fragment
onFragLoaded_KeepsForced(frag, part) ==
  /\ IF frag.type = "main" /\ frag.sn # InitSegment
       THEN /\ clearTimer
            /\ lastLoadedFragLevel' = frag.level
            /\ UNCHANGED _nextAutoLevel
            /\ IF frag.bitrateTest
                 THEN /\ bwCanEstimate' =
                           BweCanEstimateAfter(bwCanEstimate, BufferedSamples(frag, part))
                      /\ bitrateTestDelay' = BufferedTestDelay(frag, part)
                      /\ out' = Obs("FRAG_LOADED", -1, FALSE,
                                    BufferedSamples(frag, part), FALSE, FALSE, Null)
                 ELSE /\ UNCHANGED <<bwCanEstimate, bitrateTestDelay>>
                      /\ out' = Quiet("FRAG_LOADED")
       ELSE /\ UNCHANGED <<timer, lastLoadedFragLevel, _nextAutoLevel,
                           bwCanEstimate, bitrateTestDelay>>
            /\ out' = Quiet("FRAG_LOADED")
  /\ UNCHANGED <<registered, fragCurrent, partCurrent>>

\* config.abrMaxWithRealBitrate keeps its default, false.
onFragLoaded(frag, part) ==
  /\ IF frag.type = "main" /\ frag.sn # InitSegment
       THEN /\ clearTimer
            /\ lastLoadedFragLevel' = frag.level
            /\ _nextAutoLevel' = -1
            /\ IF frag.bitrateTest
                 THEN /\ bwCanEstimate' =
                           BweCanEstimateAfter(bwCanEstimate, BufferedSamples(frag, part))
                      /\ bitrateTestDelay' = BufferedTestDelay(frag, part)
                      /\ out' = Obs("FRAG_LOADED", -1, FALSE,
                                    BufferedSamples(frag, part), FALSE, FALSE, Null)
                 ELSE /\ UNCHANGED <<bwCanEstimate, bitrateTestDelay>>
                      /\ out' = Quiet("FRAG_LOADED")
       ELSE /\ UNCHANGED <<timer, lastLoadedFragLevel, _nextAutoLevel,
                           bwCanEstimate, bitrateTestDelay>>
            /\ out' = Quiet("FRAG_LOADED")
  /\ UNCHANGED <<registered, fragCurrent, partCurrent>>

onError(details) ==
  /\ IF details \in {"fragLoadError", "fragLoadTimeOut"}
       THEN clearTimer
       ELSE UNCHANGED timer
  /\ out' = Quiet("ERROR")
  /\ UNCHANGED <<registered, fragCurrent, partCurrent, lastLoadedFragLevel,
                 _nextAutoLevel, bitrateTestDelay, bwCanEstimate>>

unregisterListeners == registered' = FALSE

destroy ==
  /\ unregisterListeners
  /\ clearTimer
  /\ out' = Quiet("destroy")
  /\ UNCHANGED <<fragCurrent, partCurrent, lastLoadedFragLevel,
                 _nextAutoLevel, bitrateTestDelay, bwCanEstimate>>

\* set nextAutoLevel(nextLevel)
setNextAutoLevel(nextLevel) ==
  /\ _nextAutoLevel' = nextLevel
  /\ out' = Quiet("set nextAutoLevel")
  /\ UNCHANGED <<registered, timer, fragCurrent, partCurrent,
                 lastLoadedFragLevel, bitrateTestDelay, bwCanEstimate>>
\* ------------------------------------------------------------------------
\* Exact arithmetic on quotients <<numerator, denominator>>, denominator > 0.
RECURSIVE Gcd(_, _)
Gcd(a, b) == IF b = 0 THEN a ELSE Gcd(b, a % b)
Frac(n, d) ==
  LET g == Gcd(Abs(n), d) IN IF g = 0 THEN <<0, 1>> ELSE <<n \div g, d \div g>>
FracAdd(x, y) == Frac(x[1] * y[2] + y[1] * x[2], x[2] * y[2])
FracSub(x, y) == Frac(x[1] * y[2] - y[1] * x[2], x[2] * y[2])
FracLess(x, y) == x[1] * y[2] < y[1] * x[2]
FracLeq(x, y) == x[1] * y[2] <= y[1] * x[2]
\* Math.round of the non-negative quotient n / d
Round(n, d) == (2 * n + d) \div (2 * d)

\* ------------------------------------------------------------------------
\* _abandonRulesCheck.  env holds what one run reads from hls, the media
\* element, the loader statistics and the clock:
\*   media (attached), aborted, autoLevelEnabled, paused, playbackRate
\*   (tenths), readyState, requestDelay (ms, now - stats.loading.start),
\*   total, loaded (bytes), bwEstimate (stats.bwEstimate, bits/s, 0: unset),
\*   bufferLen (tenths, bufferInfo.end - pos), minAutoLevel, loader
\*   (frag.loader is set).

\* duration = part ? part.duration : frag.duration
AbandonDuration(frag, part) ==
  IF part # Null THEN The(part).duration ELSE frag.duration

\* none of the early returns of lines 235-265 is taken
AbandonMonitoring(frag, part, env) ==
  /\ ~env.aborted
  /\ env.autoLevelEnabled /\ ~env.paused /\ env.playbackRate # 0 /\ env.readyState # 0
  /\ ~(env.requestDelay * Abs(env.playbackRate) <= 500 * AbandonDuration(frag, part))

\* expectedLen, bytes
ExpectedLen(frag, part, env) ==
  IF env.total # 0 THEN env.total
  ELSE Max(env.loaded,
           Round(AbandonDuration(frag, part) * LevelAt(frag.level).maxBitrate, 80))

\* loadRate, bytes per second
LoadRate(env) ==
  LET raw == IF env.bwEstimate # 0 THEN Frac(env.bwEstimate, 8)
                                   ELSE Frac(env.loaded * 1000, env.requestDelay)
  IN  IF FracLess(raw, <<1, 1>>) THEN <<1, 1>> ELSE raw

\* fragLoadedDelay, seconds
FragLoadedDelay(frag, part, env) ==
  LET lr == LoadRate(env)
  IN  Frac((ExpectedLen(frag, part, env) - env.loaded) * lr[2], lr[1])

\* bufferStarvationDelay, seconds
BufferStarvationDelay(env) == Frac(env.bufferLen, Abs(env.playbackRate))

\* 2 * duration / playbackRate, seconds
TwoFragments(frag, part, env) ==
  Frac(2 * AbandonDuration(frag, part), Abs(env.playbackRate))

\* the test without its second half: a load that arrives in time is
\* abandoned all the same
NoStarvationAhead_BufferOnly(frag, part, env) ==
  FracLeq(TwoFragments(frag, part, env), BufferStarvationDelay(env))

\* the test of lines 289-292: enough is buffered, or the fragment arrives in time
NoStarvationAhead(frag, part, env) ==
  \/ FracLeq(TwoFragments(frag, part, env), BufferStarvationDelay(env))
  \/ FracLeq(FragLoadedDelay(frag, part, env), BufferStarvationDelay(env))

\* fragLevelNextLoadedDelay of one level, seconds:
\* duration * maxBitrate / (8 * 0.8 * loadRate)
NextLoadedDelay(frag, part, env, k) ==
  LET lr == LoadRate(env)
      lvl == Frac(AbandonDuration(frag, part) * (LevelAt(k).maxBitrate \div 1000), 64)
  IN  Frac(lvl[1] * 1000 * lr[2], lvl[2] * lr[1])

\* the loop without its break: it always runs down to minAutoLevel
AbandonWalk_NoBreak(frag, part, env, k, delay) ==
  IF k > env.minAutoLevel
    THEN [nextLoadLevel |-> env.minAutoLevel,
          delay |-> Some(NextLoadedDelay(frag, part, env, env.minAutoLevel + 1))]
    ELSE [nextLoadLevel |-> k, delay |-> delay]

\* the walk descending to level 0 whatever minAutoLevel is
RECURSIVE AbandonWalk_BelowMin(_, _, _, _, _)
AbandonWalk_BelowMin(frag, part, env, k, delay) ==
  IF k > 0
    THEN LET d == NextLoadedDelay(frag, part, env, k)
         IN  IF FracLess(d, BufferStarvationDelay(env))
               THEN [nextLoadLevel |-> k, delay |-> Some(d)]
               ELSE AbandonWalk_BelowMin(frag, part, env, k - 1, Some(d))
    ELSE [nextLoadLevel |-> k, delay |-> delay]

\* The loop of lines 299-314, entered with nextLoadLevel = k.  delay is the
\* last fragLevelNextLoadedDelay computed, Null while it is +Infinity.
RECURSIVE AbandonWalk(_, _, _, _, _)
AbandonWalk(frag, part, env, k, delay) ==
  IF k > env.minAutoLevel
    THEN LET d == NextLoadedDelay(frag, part, env, k)
         IN  IF FracLess(d, BufferStarvationDelay(env))
               THEN [nextLoadLevel |-> k, delay |-> Some(d)]
               ELSE AbandonWalk(frag, part, env, k - 1, Some(d))
    ELSE [nextLoadLevel |-> k, delay |-> delay]

\* the run reaches line 320: the fragment is abandoned
Abandons(frag, part, env) ==
  /\ AbandonMonitoring(frag, part, env)
  /\ ~NoStarvationAhead(frag, part, env)
  /\ LET w == AbandonWalk(frag, part, env, frag.level - 1, Null)
     IN  /\ w.delay # Null
         /\ FracLess(The(w.delay), FragLoadedDelay(frag, part, env))

\* the assignment lost: the forced level stays what it was
hlsSetNextLoadLevel_Lost(level) == UNCHANGED _nextAutoLevel

\* hls.nextLoadLevel = level, as the controller sees it: the level becomes
\* the forced level
hlsSetNextLoadLevel(level) == _nextAutoLevel' = level

_abandonRulesCheck(env) ==
  /\ timer
  /\ IF fragCurrent = Null \/ ~env.media
       THEN /\ UNCHANGED <<timer, _nextAutoLevel, bwCanEstimate, fragCurrent, partCurrent>>
            /\ out' = Obs("tick", -1, FALSE, <<>>, FALSE, FALSE, Some(env))
     ELSE IF env.aborted
       THEN /\ clearTimer
            /\ _nextAutoLevel' = -1
            /\ UNCHANGED <<bwCanEstimate, fragCurrent, partCurrent>>
            /\ out' = Obs("tick", -1, FALSE, <<>>, FALSE, FALSE, Some(env))
     ELSE IF ~Abandons(The(fragCurrent), partCurrent, env)
       THEN /\ UNCHANGED <<timer, _nextAutoLevel, bwCanEstimate, fragCurrent, partCurrent>>
            /\ out' = Obs("tick", -1, FALSE, <<>>, FALSE, FALSE, Some(env))
     ELSE LET sample == [durationMs |-> env.requestDelay, bytes |-> env.loaded]
              w == AbandonWalk(The(fragCurrent), partCurrent, env,
                               The(fragCurrent).level - 1, Null)
          IN  /\ hlsSetNextLoadLevel(w.nextLoadLevel)
              /\ bwCanEstimate' = BweCanEstimateAfter(bwCanEstimate, <<sample>>)
              /\ clearTimer
              /\ IF env.loader
                   THEN fragCurrent' = Null /\ partCurrent' = Null
                   ELSE UNCHANGED <<fragCurrent, partCurrent>>
              /\ out' = [Obs("tick", -1, FALSE, <<sample>>, TRUE, env.loader, Some(env))
                           EXCEPT !.nextLoadLevel = w.nextLoadLevel]
  /\ UNCHANGED <<registered, lastLoadedFragLevel, bitrateTestDelay>>

\* ------------------------------------------------------------------------
\* What one read of nextAutoLevel takes from hls, the media element, the
\* level details and the statistics of the current fragment (renv):
\*   media            a media element is attached
\*   playbackRate     media.playbackRate, tenths
\*   paused, seeking  media.paused, media.seeking
\*   bufferLen        BufferHelper.bufferInfo(media, pos, hole).len = end - pos,
\*                    tenths of a second (0 without media)
\*   latency          hls.latency, tenths of a second
\*   targetLatency    hls.targetLatency, tenths of a second
\*   isLive           hls.isLive
\*   bandwidthEstimate  hls.bandwidthEstimate = bwEstimator.getEstimate(), bits/s
\*   minAutoLevel, maxAutoLevel   hls.minAutoLevel, hls.maxAutoLevel
\*   live             levels[lastLoadedFragLevel].details.live
\*   detailsType      levels[lastLoadedFragLevel].details.type, "" when unset
\*   avgDuration      details.partTarget / details.averagetargetduration of the
\*                    candidate levels, tenths, 0 when unset
\*   loadMs, loaded   fragCurrent.stats.loading.end - loading.start (ms) and
\*                    fragCurrent.stats.loaded (bytes)
\*   w0               the throughput weight LoL+ ends up with (see LoLpWeight)
\*   w                the L2A probability vector after projection, in tenths

\* hls.config, the values the specification gives
abrBandWidthFactor == <<8, 10>>
abrBandWidthUpFactor == <<7, 10>>
\* config.maxStarvationDelay and config.maxLoadingDelay, tenths of a second
maxStarvationDelay == 40
maxLoadingDelay == 40

\* currentFragDuration, tenths of a second
CurrentFragDuration ==
  IF partCurrent # Null THEN The(partCurrent).duration
  ELSE IF fragCurrent # Null THEN The(fragCurrent).duration
  ELSE 0

\* bufferStarvationDelay of getNextABRAutoLevel, tenths of a second
ReadStarvationDelay(renv) ==
  LET playbackRate == IF renv.media /\ renv.playbackRate # 0
                        THEN Abs(renv.playbackRate) ELSE 10
      len == IF renv.media THEN renv.bufferLen ELSE 0
  IN  Frac(10 * len, playbackRate)

\* One candidate level without the exemption of live streams: the fetch
\* duration is always held against maxFetchDuration
LevelFits_NoExemption(renv, i, maxFetchDuration, bwFactor, bwUpFactor) ==
  LET avgDuration == IF renv.avgDuration # 0 THEN renv.avgDuration
                                             ELSE CurrentFragDuration
      factor == IF i <= lastLoadedFragLevel THEN bwFactor ELSE bwUpFactor
      bitrate == LevelAt(i).maxBitrate
      adjustedbw == Frac(factor[1] * renv.bandwidthEstimate, factor[2])
      perBit == Frac(bitrate, adjustedbw[1])
      fetchDuration == Frac(perBit[1] * avgDuration * adjustedbw[2], perBit[2])
  IN  /\ FracLess(<<bitrate, 1>>, adjustedbw)
      /\ fetchDuration[1] = 0 \/ FracLess(fetchDuration, maxFetchDuration)

\* One candidate level i of findBestLevel matches (lines 636-659).
LevelFits(renv, i, maxFetchDuration, bwFactor, bwUpFactor) ==
  LET avgDuration == IF renv.avgDuration # 0 THEN renv.avgDuration
                                             ELSE CurrentFragDuration
      factor == IF i <= lastLoadedFragLevel THEN bwFactor ELSE bwUpFactor
      bitrate == LevelAt(i).maxBitrate
      \* adjustedbw = factor * currentBw
      adjustedbw == Frac(factor[1] * renv.bandwidthEstimate, factor[2])
      \* fetchDuration = bitrate * avgDuration / adjustedbw, tenths of a second
      perBit == Frac(bitrate, adjustedbw[1])
      fetchDuration == Frac(perBit[1] * avgDuration * adjustedbw[2], perBit[2])
  IN  /\ FracLess(<<bitrate, 1>>, adjustedbw)
      /\ \/ fetchDuration[1] = 0
         \/ renv.live /\ bitrateTestDelay = 0
         \/ FracLess(fetchDuration, maxFetchDuration)

\* The loop of findBestLevel from level i downwards; -1 when no level matches.
RECURSIVE findBestLevelFrom(_, _, _, _, _)
findBestLevelFrom(renv, i, maxFetchDuration, bwFactor, bwUpFactor) ==
  IF i < renv.minAutoLevel THEN -1
  ELSE IF /\ i \in LevelIds
          /\ LevelAt(i).codecSet = LevelAt(lastLoadedFragLevel).codecSet
          /\ LevelFits(renv, i, maxFetchDuration, bwFactor, bwUpFactor)
    THEN i
    ELSE findBestLevelFrom(renv, i - 1, maxFetchDuration, bwFactor, bwUpFactor)

findBestLevel(renv, maxFetchDuration, bwFactor, bwUpFactor) ==
  findBestLevelFrom(renv, renv.maxAutoLevel, maxFetchDuration, bwFactor, bwUpFactor)

getNextABRAutoLevel(renv) ==
  LET bufferStarvationDelay == ReadStarvationDelay(renv)
      first == findBestLevel(renv, bufferStarvationDelay,
                             abrBandWidthFactor, abrBandWidthUpFactor)
      test == bufferStarvationDelay[1] = 0 /\ bitrateTestDelay # 0
      capDuration(limit) == IF CurrentFragDuration # 0
                              THEN Min(CurrentFragDuration, limit) ELSE limit
      \* bitrateTestDelay is kept in ms: one tenth of a second is 100 ms
      maxStarvation == IF test
                         THEN FracSub(<<capDuration(maxLoadingDelay), 1>>,
                                      Frac(bitrateTestDelay, 100))
                         ELSE <<capDuration(maxStarvationDelay), 1>>
      bwFactor == IF test THEN <<1, 1>> ELSE abrBandWidthFactor
      bwUpFactor == IF test THEN <<1, 1>> ELSE abrBandWidthUpFactor
  IN  IF first >= 0 THEN first
      ELSE Max(findBestLevel(renv, FracAdd(bufferStarvationDelay, maxStarvation),
                             bwFactor, bwUpFactor), 0)

\* ------------------------------------------------------------------------
\* LoL+ (LearningAbrController.getNextQuality).  _lolpLearningAbr builds a
\* new LearningAbrController on every read, so the neurons are always the
\* initial ones: state.throughput = bitrate / |bitrates|, latency = rebuffer
\* = switch = 0, and the distance to the target reduces to
\* sqrt(w * (bitrate_i - throughput')^2) / |bitrates|.

\* Sum over the ladder of (bitrate / 1000)^2: the squared
\* bitrateNormalizationFactor, in (kbit/s)^2
RECURSIVE SumSquares(_)
SumSquares(i) ==
  IF i < 0 THEN 0
  ELSE (LevelAt(i).bitrate \div 1000) * (LevelAt(i).bitrate \div 1000) + SumSquares(i - 1)

\* throughput / bitrateNormalizationFactor > 1, i.e. throughput^2 > sum of
\* squares, computed on the thousands and the remainder of throughput
ThroughputSaturates(throughput) ==
  LET q == throughput \div 1000
      r == throughput % 1000
      gap == SumSquares(NumLevels - 1) - q * q
      hi == 2 * q * r + (r * r) \div 1000
      lo == (r * r) % 1000
  IN  IF gap < 0 THEN TRUE
      ELSE IF gap > 2 * q THEN FALSE
      ELSE hi > 1000 * gap \/ (hi = 1000 * gap /\ lo > 0)

\* this.minBitrate, and the largest neuron throughput times the factor
MinBitrate == LevelAt(0).bitrate
MaxBitrate == LevelAt(NumLevels - 1).bitrate

\* _getDownShiftNeuron: the neuron of the largest bitrate below the current
\* one and below the throughput, the current neuron if there is none
RECURSIVE DownShiftFrom(_, _, _, _)
DownShiftFrom(i, current, throughput, best) ==
  IF i >= NumLevels THEN best
  ELSE IF /\ LevelAt(i).bitrate < LevelAt(current).bitrate
          /\ (best = current \/ LevelAt(i).bitrate > LevelAt(best).bitrate)
          /\ throughput > LevelAt(i).bitrate
    THEN DownShiftFrom(i + 1, current, throughput, i)
    ELSE DownShiftFrom(i + 1, current, throughput, best)
\* the search accepting a neuron whose bitrate equals the throughput
RECURSIVE DownShiftFrom_AtThroughput(_, _, _, _)
DownShiftFrom_AtThroughput(i, current, throughput, best) ==
  IF i >= NumLevels THEN best
  ELSE IF /\ LevelAt(i).bitrate < LevelAt(current).bitrate
          /\ (best = current \/ LevelAt(i).bitrate > LevelAt(best).bitrate)
          /\ throughput >= LevelAt(i).bitrate
    THEN DownShiftFrom_AtThroughput(i + 1, current, throughput, i)
    ELSE DownShiftFrom_AtThroughput(i + 1, current, throughput, best)
_getDownShiftNeuron_AtThroughput(current, throughput) ==
  DownShiftFrom_AtThroughput(0, current, throughput, current)

_getDownShiftNeuron(current, throughput) == DownShiftFrom(0, current, throughput, current)

\* currentBuffer - downloadTime < minBuffer (0.3 s), downloadTime =
\* bitrate * segmentDuration / throughput; buffer and duration in tenths
BufferLowFor(bitrate, buffer, segmentDuration, throughput) ==
  (buffer - 3) * throughput < bitrate * segmentDuration

\* getNextBufferWithBitrate(...) < minBuffer
NextBufferLow(bitrate, buffer, segmentDuration, throughput) ==
  IF bitrate > throughput
    THEN buffer - segmentDuration < 3
    ELSE (buffer + segmentDuration - 3) * throughput < bitrate * segmentDuration

\* distanceWeights[0] of neuron i, in fifths: 100 when the neuron is
\* penalised, else the selected throughput weight w0
LoLpWeight(i, w0, buffer, segmentDuration, throughput) ==
  LET bitrate == LevelAt(i).bitrate
  IN  IF /\ \/ bitrate > throughput - 10000
            \/ NextBufferLow(bitrate, buffer, segmentDuration, throughput)
         /\ bitrate # MinBitrate
        THEN 500 ELSE w0

\* distance of neuron i < distance of neuron j
LoLpCloser(i, j, w0, buffer, segmentDuration, throughput) ==
  LET target == IF ThroughputSaturates(throughput) THEN MaxBitrate ELSE throughput
      di == Abs(LevelAt(i).bitrate - target)
      dj == Abs(LevelAt(j).bitrate - target)
      g == Gcd(di, dj)
      wi == LoLpWeight(i, w0, buffer, segmentDuration, throughput)
      wj == LoLpWeight(j, w0, buffer, segmentDuration, throughput)
  IN  IF g = 0 THEN FALSE
      ELSE wi * (di \div g) * (di \div g) < wj * (dj \div g) * (dj \div g)

\* the loop of lines 271-318: minIndex after neurons 0 .. i
RECURSIVE LoLpWinner(_, _, _, _, _)
LoLpWinner(i, w0, buffer, segmentDuration, throughput) ==
  IF i = 0 THEN 0
  ELSE LET best == LoLpWinner(i - 1, w0, buffer, segmentDuration, throughput)
       IN  IF LoLpCloser(i, best, w0, buffer, segmentDuration, throughput)
             THEN i ELSE best

getNextQuality(throughput, buffer, segmentDuration, currentQualityIndex, w0) ==
  IF BufferLowFor(LevelAt(currentQualityIndex).bitrate, buffer, segmentDuration, throughput)
    THEN _getDownShiftNeuron(currentQualityIndex, throughput)
    ELSE LoLpWinner(NumLevels - 1, w0, buffer, segmentDuration, throughput)

_lolpLearningAbr(renv) ==
  IF renv.detailsType \notin {"", "VOD"} THEN lastLoadedFragLevel
  ELSE IF fragCurrent = Null \/ ~renv.media THEN lastLoadedFragLevel
  ELSE getNextQuality(renv.bandwidthEstimate, renv.bufferLen,
                      The(fragCurrent).duration, lastLoadedFragLevel, renv.w0)

\* ------------------------------------------------------------------------
\* LoLpWeightSelector and LoLpQoeEvaluator.  Weights are in fifths (1 .. 5
\* for 0.2 .. 1), times in hundred-thousandths of a second (0.00001 s is 1),
\* playback rates in tenths.  A selector sel holds targetLatency, bufferMin,
\* segmentDuration, previousLatency and the evaluator's maxBitrateKbps and
\* minBitrateKbps.
valueList == <<1, 2, 3, 4, 5>>
weightTypeCount == 4

\* generate(perm, length, currLen) of _getPermutations: every permutation is
\* shifted out in turn and pushed back once per value of the list
RECURSIVE generate(_, _)
generate(perm, currLen) ==
  IF currLen = weightTypeCount THEN perm
  ELSE generate([p \in 1 .. Len(perm) * Len(valueList) |->
                   Append(perm[((p - 1) \div Len(valueList)) + 1],
                          valueList[((p - 1) % Len(valueList)) + 1])],
                currLen + 1)

\* _getPermutations(): this.weightOptions
_getPermutations == generate([k \in 1 .. Len(valueList) |-> <<valueList[k]>>], 1)

\* downloadTime = neuron.bitrate * segmentDuration / currentThroughput;
\* <<>> is Infinity (currentThroughput = 0)
DownloadTime(bitrate, sel, currentThroughput) ==
  IF currentThroughput = 0 THEN Null
  ELSE Some((bitrate * sel.segmentDuration) \div currentThroughput)

\* getNextBuffer(currentBuffer, downloadTime)
getNextBuffer(currentBuffer, downloadTime, sel) ==
  IF downloadTime = Null \/ The(downloadTime) > sel.segmentDuration
    THEN currentBuffer - sel.segmentDuration
    ELSE currentBuffer + sel.segmentDuration - The(downloadTime)

\* _checkConstraints(nextLatency, nextBuffer, deltaLatency)
_checkConstraints(nextLatency, nextBuffer, deltaLatency, sel) ==
  IF nextLatency > sel.targetLatency + deltaLatency THEN FALSE
  ELSE nextBuffer >= sel.bufferMin

\* calculateSingleUseQoe(neuron.bitrate, wt * rebuffer, wt * neuron.state.latency,
\* playbackRate) with wt = 1 / weight, times 1200000 so that every term is
\* whole; <<>> is -Infinity (rebuffer = Infinity).  A fresh QoeInfo has no
\* lastBitrate, so there is no switch term.
calculateSingleUseQoe(neuron, rebuffer, weightVector, playbackRate, sel) ==
  IF sel.segmentDuration = 0 \/ sel.maxBitrateKbps = 0 \/ sel.minBitrateKbps = 0
    THEN Some(0)
  ELSE IF rebuffer = Null THEN Null
  ELSE LET latencyWeight == weightVector[2]
           bufferWeight == weightVector[3]
           bitrateWSum == sel.segmentDuration * neuron.bitrate * 12
           rebufferWSum == (sel.maxBitrateKbps * The(rebuffer) * 60) \div bufferWeight
           \* weightedLatency <= 1.1
           latencyWSum ==
             IF neuron.latency * 5 <= 110000 * latencyWeight
               THEN (sel.minBitrateKbps * neuron.latency * 3) \div latencyWeight
               ELSE (sel.maxBitrateKbps * neuron.latency * 6) \div latencyWeight
           playbackSpeedWSum == sel.minBitrateKbps * Abs(10 - playbackRate) * 120000
       IN  Some(bitrateWSum - rebufferWSum - latencyWSum - playbackSpeedWSum)

\* totalQoE > maxQoE
QoeGreater(totalQoE, maxQoE) ==
  /\ totalQoE # Null
  /\ maxQoE = Null \/ The(totalQoE) > The(maxQoE)

\* this.weightOptions.forEach over the options lo .. hi in their order, for
\* one neuron that passed the constraints: acc holds maxQoE, winnerWeights
\* and winnerBitrate.  (The range is halved and its first half evaluated
\* before its second, which keeps the evaluation shallow.)
RECURSIVE ForEachWeightVector(_, _, _, _, _, _, _)
ForEachWeightVector(lo, hi, acc, neuron, rebuffer, playbackRate, sel) ==
  IF lo > hi THEN acc
  ELSE IF lo = hi
    THEN LET weightVector == _getPermutations[lo]
             totalQoE == calculateSingleUseQoe(neuron, rebuffer, weightVector, playbackRate, sel)
         IN  IF acc.maxQoE = Null \/ QoeGreater(totalQoE, The(acc.maxQoE))
               THEN [maxQoE |-> Some(totalQoE), winnerWeights |-> Some(weightVector),
                     winnerBitrate |-> Some(neuron.bitrate)]
               ELSE acc
  ELSE LET mid == (lo + hi) \div 2
           first == ForEachWeightVector(lo, mid, acc, neuron, rebuffer, playbackRate, sel)
       IN  IF first = acc
             THEN ForEachWeightVector(mid + 1, hi, acc, neuron, rebuffer, playbackRate, sel)
             ELSE ForEachWeightVector(mid + 1, hi, first, neuron, rebuffer, playbackRate, sel)

\* whether a neuron passes _checkConstraints in a call of findWeightVector
NeuronPasses(neuron, currentLatency, currentBuffer, currentThroughput, sel) ==
  _checkConstraints(currentLatency,
                    getNextBuffer(currentBuffer,
                                  DownloadTime(neuron.bitrate, sel, currentThroughput), sel),
                    Abs(currentLatency - sel.previousLatency), sel)

\* neurons.forEach from neuron m on
RECURSIVE ForEachNeuron(_, _, _, _, _, _, _, _)
ForEachNeuron(m, acc, neurons, currentLatency, currentBuffer, currentThroughput, playbackRate, sel) ==
  IF m > Len(neurons) THEN acc
  ELSE LET neuron == neurons[m]
           downloadTime == DownloadTime(neuron.bitrate, sel, currentThroughput)
           nextBuffer == getNextBuffer(currentBuffer, downloadTime, sel)
           \* Math.max(0.00001, downloadTime - nextBuffer)
           rebuffer == IF downloadTime = Null THEN Null
                       ELSE Some(Max(1, The(downloadTime) - nextBuffer))
       IN  ForEachNeuron(
             m + 1,
             IF NeuronPasses(neuron, currentLatency, currentBuffer, currentThroughput, sel)
               THEN ForEachWeightVector(1, Len(_getPermutations), acc, neuron, rebuffer,
                                        playbackRate, sel)
               ELSE acc,
             neurons, currentLatency, currentBuffer, currentThroughput, playbackRate, sel)

\* the variables of findWeightVector after neurons.forEach
Winner(neurons, currentLatency, currentBuffer, currentThroughput, playbackRate, sel) ==
  ForEachNeuron(1, [maxQoE |-> Null, winnerWeights |-> Null, winnerBitrate |-> Null],
                neurons, currentLatency, currentBuffer, currentThroughput, playbackRate, sel)

\* the sentinel -1, kept as a sequence like the vectors it stands in for
MinusOne == <<-1>>

\* findWeightVector returning winnerWeights as the loop left it
findWeightVector_KeepsNull(neurons, currentLatency, currentBuffer, currentThroughput, playbackRate, sel) ==
  LET w == Winner(neurons, currentLatency, currentBuffer, currentThroughput,
                  playbackRate, sel)
  IN  IF w.winnerWeights = Null THEN Null ELSE The(w.winnerWeights)

\* findWeightVector: the value returned, <<>> for null
findWeightVector(neurons, currentLatency, currentBuffer, currentThroughput, playbackRate, sel) ==
  LET w == Winner(neurons, currentLatency, currentBuffer, currentThroughput,
                  playbackRate, sel)
  IN  IF w.winnerWeights = Null /\ w.winnerBitrate = Null THEN MinusOne
      ELSE IF w.winnerWeights = Null THEN Null
      ELSE The(w.winnerWeights)

\* ------------------------------------------------------------------------
\* L2ARule.  this.l2aRule holds
\*   listening             its four listeners are attached to hls
\*   state                 l2AStateDict.main.state
\*   lastQuality           l2AStateDict.main.lastQuality
\*   lastSegmentDurationS  l2AStateDict.main.lastSegmentDurationS, tenths of
\*                         a second, Null for NaN
\* The fields no decision reads (abrQuality, placeholderBuffer,
\* mostAdvancedSegmentStart, lastSegmentWasReplacement, lastSegmentStart,
\* lastSegmentRequestTimeMs, lastSegmentFinishTimeMs and the two segment_*
\* parameters) are left out.
\*   Q, prev_w             l2AParameterDict.main.Q and .prev_w (in tenths)
L2A_STATE_STARTUP == 1
L2A_STATE_STEADY == 2
\* l2AParameter.B_target = 1.5 s, in tenths
B_target == 15

\* The Lagrangian multiplier l2AParameter.Q is a double.  vl = 4^0.99 is
\* irrational, so Q is followed exactly only where it is a power of two
\* times vl:
\*   [kind |-> "pow2", exp |-> e]   Q = vl * 2^e
\*   [kind |-> "finite", exp |-> 0] a finite Q whose value is not followed
\*   [kind |-> "notFinite", exp |-> 0]  Q is Infinity or NaN
\* vl * 2^1022 is the largest such double; vl * 2^1023 exceeds
\* Number.MAX_VALUE and rounds to Infinity.
MaxDoubleExp == 1022
QPow2(e) == [kind |-> "pow2", exp |-> e]
QFinite == [kind |-> "finite", exp |-> 0]
QNotFinite == [kind |-> "notFinite", exp |-> 0]

\* react * Math.max(vl, Q) with react = 2
Recalibrated(Q) ==
  IF Q.kind = "pow2"
    THEN IF Q.exp + 1 > MaxDoubleExp THEN QNotFinite ELSE QPow2(Q.exp + 1)
    ELSE Q

\* the vector with equal probabilities on the levels up to k
Corner_Spread(k) == [i \in 1..NumLevels |-> IF i <= k + 1 THEN 10 \div (k + 1) ELSE 0]

\* the vector with probability 1 (ten tenths) on level k
Corner(k) == [i \in 1..NumLevels |-> IF i = k + 1 THEN 10 ELSE 0]

\* new L2ARule(config) followed by the first _getL2AState; Q = 0 and
\* prev_w = [] until the steady state is entered
NewL2ARule ==
  [listening |-> TRUE, state |-> L2A_STATE_STARTUP, lastQuality |-> 0,
   lastSegmentDurationS |-> Null, Q |-> QFinite, prev_w |-> <<>>]

\* targetLatency = hls.targetLatency ? hls.targetLatency : 0;
\* deltaLatency = Math.abs(latency - targetLatency)
DeltaLatency(latency, renv) == Abs(latency - renv.targetLatency)

\* the loop "for i = n-1 .. 0: if (bitrate * 1000 >= bitrateList[i]) return i",
\* bitrate given as the quotient num / den of bits/s
RECURSIVE HighestAtMost(_, _, _)
HighestAtMost(i, num, den) ==
  IF i < 0 THEN 0
  ELSE IF num >= LevelAt(i).bitrate * den THEN i
  ELSE HighestAtMost(i - 1, num, den)

\* L2ARule.getQualityForBitrate(throughput), throughput in bits/s
L2AQualityForBitrate(throughput, renv) ==
  IF renv.latency # 0 /\ fragCurrent # Null
    THEN LET fragmentDuration == The(fragCurrent).duration
             deltaLatency == DeltaLatency(renv.latency, renv)
         IN  IF deltaLatency > fragmentDuration THEN 0
             ELSE IF fragmentDuration = 0 THEN 0
             ELSE HighestAtMost(NumLevels - 1,
                                throughput * (fragmentDuration - deltaLatency),
                                fragmentDuration)
    ELSE HighestAtMost(NumLevels - 1, throughput, 1)

\* _dotmultiplication(w, bitrates) over levels 0 .. i, bitrates in kbit/s
RECURSIVE _dotmultiplication(_, _)
_dotmultiplication(w, i) ==
  IF i < 0 THEN 0
  ELSE w[i + 1] * (LevelAt(i).bitrate \div 1000) + _dotmultiplication(w, i - 1)

\* temp[i] = |bitrates[i] - w . bitrates|, times ten (w is in tenths)
L2ADistance(i, w) ==
  Abs(10 * (LevelAt(i).bitrate \div 1000) - _dotmultiplication(w, NumLevels - 1))

\* temp.indexOf(Math.min(...temp))
L2AArgMin(w) ==
  CHOOSE i \in LevelIds :
    /\ \A j \in LevelIds : L2ADistance(i, w) <= L2ADistance(j, w)
    /\ \A j \in LevelIds : j < i => L2ADistance(j, w) > L2ADistance(i, w)

\* arr.sort((a, b) => b - a) of finite numbers, given as quotients
RECURSIVE SortDescending(_)
SortDescending(arr) ==
  IF arr = <<>> THEN <<>>
  ELSE LET i == CHOOSE i \in 1 .. Len(arr) : \A j \in 1 .. Len(arr) : FracLeq(arr[j], arr[i])
       IN  <<arr[i]>> \o SortDescending(SubSeq(arr, 1, i - 1) \o SubSeq(arr, i + 1, Len(arr)))

\* the loop of lines 375-385 from index ii on (tmpsum the sum of s[0 .. ii-1])
\* and the fallback of lines 386-388: the threshold tmax
RECURSIVE ProjectionTmax(_, _, _)
ProjectionTmax(s, ii, tmpsum) ==
  LET m == Len(s)
  IN  IF ii >= m - 1
        THEN LET total == FracSub(FracAdd(tmpsum, s[m]), <<1, 1>>)
             IN  Frac(total[1], total[2] * m)
        ELSE LET sum == FracAdd(tmpsum, s[ii + 1])
                 less == FracSub(sum, <<1, 1>>)
                 tmax == Frac(less[1], less[2] * (ii + 1))
             IN  IF FracLeq(s[ii + 2], tmax) THEN tmax
                 ELSE ProjectionTmax(s, ii + 1, sum)

\* the projection with the threshold shifted by one component's share of 1
euclideanProjection_NoUnit(arr) ==
  LET tmax == ProjectionTmax(SortDescending(arr), 0, <<1, 1>>)
  IN  [ii \in 1 .. Len(arr) |->
         LET d == FracSub(arr[ii], tmax) IN IF d[1] > 0 THEN d ELSE <<0, 1>>]

\* euclideanProjection(arr) of finite numbers, given as quotients:
\* x[ii] = Math.max(arr2[ii] - tmax, 0), arr2 the copy in the input's order
euclideanProjection(arr) ==
  LET tmax == ProjectionTmax(SortDescending(arr), 0, <<0, 1>>)
  IN  [ii \in 1 .. Len(arr) |->
         LET d == FracSub(arr[ii], tmax) IN IF d[1] > 0 THEN d ELSE <<0, 1>>]

\* The Lagrangian descent and the projection (lines 527-548).  When
\* prev_w is the corner of level k, the playback rate is 1 and the
\* throughput equals bitrates[k], the step adds to w[i] for i <= k in
\* proportion to bitrates[i] and subtracts for i > k, so w[k] exceeds every
\* other component by at least 1 and the projection returns the same corner.
\* Elsewhere w is the point of the simplex the read's environment supplies.
Pinned(rule, renv) ==
  /\ (IF renv.media THEN renv.playbackRate ELSE 10) = 10
  /\ \E k \in LevelIds : /\ rule.prev_w = Corner(k)
                         /\ renv.bandwidthEstimate = LevelAt(k).bitrate

L2AWeights(rule, renv) == IF Pinned(rule, renv) THEN rule.prev_w ELSE renv.w

\* Q after line 551.  In the pinned step diff1 = 0 and w . bitrates equals
\* the throughput: Q - V + V * 1 = Q.
QAfterDescent(rule, renv) == IF Pinned(rule, renv) THEN rule.Q ELSE QFinite

\* the steady-state decision taking the argmin at once
L2ASteadyQuality_Jump(rule, renv) == L2AArgMin(L2AWeights(rule, renv))

\* the steady-state decision on finite numbers (lines 563-579)
L2ASteadyQuality(rule, renv) ==
  LET lastthroughput == Max(renv.bandwidthEstimate, 1000)
      quality == L2AArgMin(L2AWeights(rule, renv))
  IN  IF /\ quality > rule.lastQuality
         /\ LevelAt(rule.lastQuality + 1).bitrate <= lastthroughput
        THEN rule.lastQuality + 1
        ELSE quality

\* what the projection returns for n components +-Infinity: as many
\* components, NaN where w[i] is +Infinity (NaN is written -1)
NaNVector(n) == [i \in 1 .. n |-> -1]

\* case L2A_STATE_STEADY.  With Q = Infinity every w[i] is +-Infinity, the
\* projection yields NaN, Math.min(...temp) is NaN and temp.indexOf(NaN) is
\* -1; Q becomes NaN and stays so.
L2ASteady(rule, renv) ==
  IF rule.Q.kind = "notFinite"
    THEN [quality |-> -1,
          rule |-> [rule EXCEPT !.lastQuality = -1, !.prev_w = NaNVector(NumLevels)]]
    ELSE LET lastthroughput == Max(renv.bandwidthEstimate, 1000)
             quality == L2ASteadyQuality(rule, renv)
             Q == QAfterDescent(rule, renv)
         IN  [quality |-> quality,
              rule |-> [rule EXCEPT
                          !.lastQuality = quality,
                          !.prev_w = L2AWeights(rule, renv),
                          !.Q = IF LevelAt(quality).bitrate >= lastthroughput
                                  THEN Recalibrated(Q) ELSE Q]]

\* L2ARule.getMaxIndex: the quality returned and the rule afterwards
L2AGetMaxIndex(rule, renv) ==
  LET bufferLevel == IF renv.media THEN renv.bufferLen ELSE 0
  IN  IF rule.state = L2A_STATE_STARTUP
        THEN IF /\ renv.isLive
                /\ \/ fragCurrent = Null
                   \/ DeltaLatency(renv.latency, renv) >= The(fragCurrent).duration
               THEN [quality |-> 0, rule |-> rule]
               ELSE LET quality == L2AQualityForBitrate(renv.bandwidthEstimate, renv)
                        steady == rule.lastSegmentDurationS # Null /\ bufferLevel >= B_target
                    IN  [quality |-> quality,
                         rule |-> IF steady
                                    THEN [rule EXCEPT !.lastQuality = quality,
                                                      !.state = L2A_STATE_STEADY,
                                                      !.Q = QPow2(0),
                                                      !.prev_w = Corner(quality)]
                                    ELSE [rule EXCEPT !.lastQuality = quality]]
        ELSE L2ASteady(rule, renv)

\* _onMediaFragmentLoaded
_onMediaFragmentLoaded(rule, frag) ==
  IF frag.type = "main"
    THEN [rule EXCEPT !.lastSegmentDurationS = Some(frag.duration),
                      !.lastQuality = frag.level]
    ELSE rule

\* the handler clearing the last segment's fields in whatever state
_onPlaybackSeeking_KeepsState(rule, details) ==
  IF details = "bufferStalledError"
    THEN [rule EXCEPT !.lastSegmentDurationS = Null]
    ELSE rule

\* the handler going back to STARTUP with the last segment's duration kept
_onPlaybackSeeking_KeepsDuration(rule, details) ==
  IF details = "bufferStalledError"
    THEN [rule EXCEPT !.state = L2A_STATE_STARTUP]
    ELSE rule

\* the handler resetting on every ERROR event, whatever its details
_onPlaybackSeeking_AnyError(rule, details) ==
  [rule EXCEPT !.state = L2A_STATE_STARTUP, !.lastSegmentDurationS = Null]

\* _onPlaybackSeeking (the handler of hls ERROR events)
_onPlaybackSeeking(rule, details) ==
  IF details = "bufferStalledError"
    THEN [rule EXCEPT !.state = L2A_STATE_STARTUP, !.lastSegmentDurationS = Null]
    ELSE rule

\* _L2AAbr
_L2AAbr(rule, renv) ==
  L2AGetMaxIndex(IF rule = Null THEN NewL2ARule ELSE The(rule), renv)

\* ------------------------------------------------------------------------
\* LlamaABR.  this.llama holds sn0 and harmonicMeanQ; the queue is kept as
\* the throughputs (kbit/s) whose reciprocals the code stores.
HARMONIC_MEAN_SIZE == 10

\* new LlamaABR(config): sn0 = fragCurrent.sn
NewLlama == [sn0 |-> The(fragCurrent).sn, harmonicMeanQ |-> <<>>]

\* LlamaABR.update with a fragCurrent that is not null
LlamaUpdate(rule) ==
  IF IsStringSn(rule.sn0) THEN [rule EXCEPT !.sn0 = The(fragCurrent).sn] ELSE rule

RECURSIVE SeqSum(_)
SeqSum(q) == IF q = <<>> THEN 0 ELSE Head(q) + SeqSum(Tail(q))

\* harmonicMean > bitrate (kbit/s), where
\* harmonicMean = 1 / (harmonicMeanQ.reduce((a, b) => a + 1 / b) / sampleSize)
\* and reduce, having no initial value, starts from the first reciprocal:
\* the sum is 1/t1 + t2 + ... + tn.
HarmonicMeanAbove(q, bitrate) ==
  LET n == Len(q)
      first == Head(q)
      rest == SeqSum(Tail(q))
  IN  IF first = 0 THEN FALSE
      ELSE IF rest = 0 THEN n * first > bitrate
      ELSE n > bitrate * rest /\ n * first > bitrate * (1 + first * rest)

\* LlamaABR.getMaxIndex with a fragCurrent that is not null
LlamaGetMaxIndex(rule, renv) ==
  LET sn == The(fragCurrent).sn
      currentQuality == lastLoadedFragLevel
  IN  IF IsStringSn(rule.sn0) \/ (~IsStringSn(sn) /\ Abs(sn - rule.sn0) < 5)
        THEN [quality |-> 0, rule |-> rule]
        ELSE LET throughput == Round(8 * renv.loaded, renv.loadMs)
                 pushed == Append(rule.harmonicMeanQ, throughput)
                 q == IF Len(pushed) > HARMONIC_MEAN_SIZE THEN Tail(pushed) ELSE pushed
                 higherQuality == IF currentQuality + 1 < NumLevels
                                    THEN currentQuality + 1 ELSE currentQuality
                 lowerQuality == IF currentQuality - 1 > 0
                                   THEN currentQuality - 1 ELSE currentQuality
                 quality ==
                   IF renv.bandwidthEstimate < LevelAt(currentQuality).bitrate
                     THEN lowerQuality
                   ELSE IF /\ HarmonicMeanAbove(q, LevelAt(higherQuality).bitrate \div 1000)
                           /\ renv.bandwidthEstimate > LevelAt(higherQuality).bitrate
                     THEN higherQuality
                   ELSE currentQuality
             IN  [quality |-> quality, rule |-> [rule EXCEPT !.harmonicMeanQ = q]]

\* _LlamaAbr: quality, the rule afterwards, and whether a TypeError escapes
\* (update and getMaxIndex dereference fragCurrent)
_LlamaAbr(rule, renv) ==
  IF rule = Null
    THEN IF fragCurrent # Null
           THEN LET r == LlamaGetMaxIndex(NewLlama, renv)
                IN  [quality |-> r.quality, rule |-> Some(r.rule), threw |-> FALSE]
           ELSE [quality |-> 0, rule |-> Null, threw |-> FALSE]
    ELSE IF fragCurrent = Null
           THEN [quality |-> -1, rule |-> rule, threw |-> TRUE]
           ELSE LET r == LlamaGetMaxIndex(LlamaUpdate(The(rule)), renv)
                IN  [quality |-> r.quality, rule |-> Some(r.rule), threw |-> FALSE]

\* ------------------------------------------------------------------------
\* StallionRule.  this.stallionRule holds throughputArr (kbit/s) and
\* latencyArr (tenths of a second).
THROUGHPUT_SAMPLE_AMOUNT == 3
LATENCY_SAMPLE_AMOUNT == 4

NewStallionRule == [throughputArr |-> <<>>, latencyArr |-> <<>>]

RECURSIVE SeqSumSq(_)
SeqSumSq(q) == IF q = <<>> THEN 0 ELSE Head(q) * Head(q) + SeqSumSq(Tail(q))

\* the largest r with r * r <= n, found between lo and hi
RECURSIVE SqrtBetween(_, _, _)
SqrtBetween(n, lo, hi) ==
  IF lo >= hi THEN lo
  ELSE LET mid == (lo + hi + 1) \div 2
       IN  IF mid * mid <= n THEN SqrtBetween(n, mid, hi)
                             ELSE SqrtBetween(n, lo, mid - 1)
Sqrt(n) == SqrtBetween(n, 0, Min(n, 46340))

\* getMean(array), as a quotient
getMean(array) == Frac(SeqSum(array), Len(array))

\* the deviation taken from 0 instead of from the mean: sqrt(sum(x^2) / n)
getStandardDeviation_Uncentred(array, scale) ==
  Frac(Sqrt(Len(array) * SeqSumSq(array) * scale * scale), Len(array) * scale)

\* getStandardDeviation(array) = sqrt(n * sum(x^2) - sum(x)^2) / n, the root
\* taken to 1/scale of the array's unit
getStandardDeviation(array, scale) ==
  LET n == Len(array)
      radicand == n * SeqSumSq(array) - SeqSum(array) * SeqSum(array)
  IN  Frac(Sqrt(radicand * scale * scale), n * scale)

\* StallionRule.getQualityForBitrate(bitrate, latency): bitrate a quotient
\* of kbit/s, latency and deltaLatency quotients of tenths of a second
\* (a level's bitrate is a whole number, so "bitrate * 1000 >= bitrateList[i]"
\* is decided by the whole bits/s below bitrate * 1000)
StallionQualityForBitrate(bitrate, lat, deltaLatency) ==
  LET Bits(q) == (q[1] \div q[2]) * 1000 + ((q[1] % q[2]) * 1000) \div q[2]
  IN  IF lat[1] # 0 /\ fragCurrent # Null
        THEN LET fragmentDuration == The(fragCurrent).duration
                 left == FracSub(<<fragmentDuration, 1>>, deltaLatency)
             IN  IF left[1] <= 0 THEN 0
                 ELSE HighestAtMost(NumLevels - 1,
                                    Bits(Frac(bitrate[1] * left[1],
                                              bitrate[2] * left[2] * fragmentDuration)),
                                    1)
        ELSE HighestAtMost(NumLevels - 1, Bits(bitrate), 1)

\* StallionRule.getMaxIndex: the quality returned and the rule afterwards
\* the shift that drops the sample just pushed instead of the oldest
ShiftBeyond_Newest(arr, amount) ==
  IF Len(arr) > amount THEN SubSeq(arr, 1, Len(arr) - 1) ELSE arr

\* if (arr.length > amount) arr.shift()
ShiftBeyond(arr, amount) == IF Len(arr) > amount THEN Tail(arr) ELSE arr

\* getMaxIndex from line 89 on, for a fragment that is not an audio fragment
\* (the controller's fragCurrent is a main fragment or null)
StallionGetMaxIndex(rule, renv) ==
  LET pushedT == Append(rule.throughputArr, renv.bandwidthEstimate \div 1000)
      pushedL == Append(rule.latencyArr, renv.latency)
      tArr == ShiftBeyond(pushedT, THROUGHPUT_SAMPLE_AMOUNT)
      lArr == ShiftBeyond(pushedL, LATENCY_SAMPLE_AMOUNT)
      bitrate == FracSub(getMean(tArr), getStandardDeviation(tArr, 1))
      \* lat = latency + 1.25 * std_latency
      stdL == getStandardDeviation(lArr, 100)
      lat == FracAdd(getMean(lArr), Frac(5 * stdL[1], 4 * stdL[2]))
      diff == FracSub(lat, <<renv.targetLatency, 1>>)
      deltaLatency == <<Abs(diff[1]), diff[2]>>
      bufferLen == IF renv.media THEN renv.bufferLen ELSE 0
      after == [throughputArr |-> IF renv.isLive THEN tArr ELSE SubSeq(tArr, 1, Len(tArr) - 1),
                latencyArr |-> IF renv.isLive THEN lArr ELSE SubSeq(lArr, 1, Len(lArr) - 1)]
  IN  [quality |->
         IF /\ fragCurrent # Null
            /\ FracLess(deltaLatency, <<The(fragCurrent).duration, 1>>)
            /\ bufferLen > 0
           THEN StallionQualityForBitrate(bitrate, lat, deltaLatency)
           ELSE lastLoadedFragLevel,
       rule |-> after]

\* getMaxIndex of a rule whose fragCurrent has the given type
StallionGetMaxIndexFor(rule, mediaType, renv) ==
  IF mediaType = "audio" THEN [quality |-> lastLoadedFragLevel, rule |-> rule]
  ELSE StallionGetMaxIndex(rule, renv)

\* _StallionAbr
_StallionAbr(rule, renv) ==
  StallionGetMaxIndex(IF rule = Null THEN NewStallionRule ELSE The(rule), renv)

\* ------------------------------------------------------------------------
\* get nextAutoLevel

\* the getter without the cap of lines 497-499
CapForced_Uncapped(forcedAutoLevel, nextABRAutoLevel) == nextABRAutoLevel

\* lines 497-499: the forced level caps the rule's level
CapForced(forcedAutoLevel, nextABRAutoLevel) ==
  IF forcedAutoLevel # -1 THEN Min(forcedAutoLevel, nextABRAutoLevel)
                          ELSE nextABRAutoLevel

\* lines 465-478: the rules left after the switch on this.lastABRRule
TornDown ==
  [l2aRule |-> IF lastABRRule = "L2ARule" /\ ABRRule # "L2ARule" THEN Null ELSE l2aRule,
   llama |-> IF lastABRRule = "Llama" /\ ABRRule # "Llama" THEN Null ELSE llama,
   stallionRule |-> IF lastABRRule = "StallionRule" /\ ABRRule # "StallionRule"
                      THEN Null ELSE stallionRule]

\* lines 479-495: the level the switch on this.ABRRule computes, whether a
\* TypeError escapes, and the rules afterwards
Dispatch(renv) ==
  LET rules == TornDown
  IN  CASE ABRRule = "LoLp" ->
             [quality |-> _lolpLearningAbr(renv), threw |-> FALSE, rules |-> rules]
        [] ABRRule = "L2ARule" ->
             LET r == _L2AAbr(rules.l2aRule, renv)
             IN  [quality |-> r.quality, threw |-> FALSE,
                  rules |-> [rules EXCEPT !.l2aRule = Some(r.rule)]]
        [] ABRRule = "Llama" ->
             LET r == _LlamaAbr(rules.llama, renv)
             IN  [quality |-> r.quality, threw |-> r.threw,
                  rules |-> [rules EXCEPT !.llama = r.rule]]
        [] ABRRule = "StallionRule" ->
             LET r == _StallionAbr(rules.stallionRule, renv)
             IN  [quality |-> r.quality, threw |-> FALSE,
                  rules |-> [rules EXCEPT !.stallionRule = Some(r.rule)]]
        [] OTHER ->
             [quality |-> getNextABRAutoLevel(renv), threw |-> FALSE, rules |-> rules]

\* the getter returns the forced level at once (lines 457-462)
ReturnsForced == _nextAutoLevel # -1 /\ ~bwCanEstimate

getNextAutoLevel(renv) ==
  /\ IF ReturnsForced
       THEN /\ out' = Obs("get nextAutoLevel", _nextAutoLevel, FALSE, <<>>,
                          FALSE, FALSE, Null)
            /\ UNCHANGED <<l2aRule, llama, stallionRule>>
       ELSE LET d == Dispatch(renv)
            IN  /\ l2aRule' = d.rules.l2aRule
                /\ llama' = d.rules.llama
                /\ stallionRule' = d.rules.stallionRule
                /\ out' = Obs("get nextAutoLevel",
                              IF d.threw THEN -1 ELSE CapForced(_nextAutoLevel, d.quality),
                              d.threw, <<>>, FALSE, FALSE,
                              IF d.threw THEN Null ELSE Some([decision |-> d.quality]))
  /\ UNCHANGED <<orchVars, ABRRule, lastABRRule>>

\* ------------------------------------------------------------------------
\* Events of hls, delivered to the listeners attached at the time: the
\* controller's first, then the L2A rule's.
L2AListening == l2aRule # Null /\ The(l2aRule).listening

FRAG_LOADING(frag, part) ==
  /\ IF registered THEN onFragLoading(frag, part)
                   ELSE UNCHANGED orchVars /\ out' = Quiet("FRAG_LOADING")
  /\ UNCHANGED ruleVars

FRAG_LOADED(frag, part) ==
  /\ IF registered THEN onFragLoaded(frag, part)
                   ELSE UNCHANGED orchVars /\ out' = Quiet("FRAG_LOADED")
  /\ l2aRule' = IF L2AListening THEN Some(_onMediaFragmentLoaded(The(l2aRule), frag))
                                ELSE l2aRule
  /\ UNCHANGED <<ABRRule, lastABRRule, llama, stallionRule>>

FRAG_BUFFERED(frag, part) ==
  /\ IF registered THEN onFragBuffered(frag, part)
                   ELSE UNCHANGED orchVars /\ out' = Quiet("FRAG_BUFFERED")
  /\ UNCHANGED ruleVars

ERROR(details) ==
  /\ IF registered THEN onError(details)
                   ELSE UNCHANGED orchVars /\ out' = Quiet("ERROR")
  /\ l2aRule' = IF L2AListening THEN Some(_onPlaybackSeeking(The(l2aRule), details))
                                ELSE l2aRule
  /\ UNCHANGED <<ABRRule, lastABRRule, llama, stallionRule>>

\* the interval timer fires
Tick(env) == _abandonRulesCheck(env) /\ UNCHANGED ruleVars

Destroy == registered /\ destroy /\ UNCHANGED ruleVars

SetNextAutoLevel(nextLevel) == setNextAutoLevel(nextLevel) /\ UNCHANGED ruleVars

\* the embedding page assigns the rule tag
SetABRRule(tag) ==
  /\ tag # ABRRule
  /\ ABRRule' = tag
  /\ out' = Quiet("set ABRRule")
  /\ UNCHANGED <<orchVars, lastABRRule, l2aRule, llama, stallionRule>>

\* ------------------------------------------------------------------------
\* The state after new AbrController(hls), with the rule tag the page
\* configures.
InitWith(tags) ==
  /\ registered = TRUE
  /\ timer = FALSE
  /\ fragCurrent = Null
  /\ partCurrent = Null
  /\ lastLoadedFragLevel = 0
  /\ _nextAutoLevel = -1
  /\ bitrateTestDelay = 0
  /\ bwCanEstimate = FALSE
  /\ ABRRule \in tags
  /\ lastABRRule = "LoLp"
  /\ l2aRule = Null
  /\ llama = Null
  /\ stallionRule = Null
  /\ out = Quiet("new")

\* ------------------------------------------------------------------------
\* The environment of the main specification.
MaxSn == 5

\* nothing was delivered yet: per fragment sn, whether its FRAG_LOADING,
\* its FRAG_LOADED and its FRAG_BUFFERED were delivered and how many
\* bwEstimator.sample calls the handlers made for it
NoHistory ==
  [sn \in InitSegment..MaxSn |->
     [loading |-> FALSE, loaded |-> FALSE, buffered |-> FALSE, samples |-> 0]]

\* LoaderStats of a fragment loaded in one piece, of a fragment delivered in
\* four chunks, and of an aborted load
StatsWhole ==
  [aborted |-> FALSE, loaded |-> 250000, loadingStart |-> 0, loadingEnd |-> 1000,
   parsingEnd |-> 1100, startTimeData |-> <<>>, endTimeData |-> <<>>, boxLoaded |-> 0]
StatsChunked ==
  [StatsWhole EXCEPT
     !.startTimeData = <<10, 260, 510, 760>>,
     !.endTimeData = << [timestamp |-> 200, len |-> 60000], [timestamp |-> 450, len |-> 60000],
                        [timestamp |-> 700, len |-> 60000], [timestamp |-> 950, len |-> 70000] >>,
     !.boxLoaded = 250000]
StatsAborted == [StatsWhole EXCEPT !.aborted = TRUE]

Fragment(sn, level, type, bitrateTest, stats) ==
  [sn |-> sn, level |-> level, duration |-> 20, type |-> type,
   bitrateTest |-> bitrateTest, stats |-> stats]
PartOf(stats) == Some([duration |-> 10, stats |-> stats])

Whole == Null
InParts == PartOf(StatsWhole)

\* <<frag, part>> of the FRAG_LOADING, FRAG_LOADED and FRAG_BUFFERED events
LoadingData ==
  { <<Fragment(InitSegment, 0, "main", FALSE, StatsChunked), Whole>>,
    <<Fragment(0, 2, "main", FALSE, StatsChunked), Whole>>,
    <<Fragment(MaxSn, 1, "main", FALSE, StatsChunked), InParts>>,
    <<Fragment(0, 1, "audio", FALSE, StatsWhole), Whole>> }
LoadedData ==
  LoadingData \cup { <<Fragment(0, 0, "main", TRUE, StatsWhole), Whole>> }
BufferedData ==
  { <<Fragment(0, 2, "main", FALSE, StatsChunked), Whole>>,
    <<Fragment(MaxSn, 1, "main", FALSE, StatsAborted), Whole>> }

ErrorDetails == {"fragLoadError", "bufferStalledError"}

\* one run of the interval callback: a load that is on time, a load far
\* behind with and without a loader to abort, an aborted load
TickOnTime ==
  [media |-> TRUE, aborted |-> FALSE, autoLevelEnabled |-> TRUE, paused |-> FALSE,
   playbackRate |-> 10, readyState |-> 4, requestDelay |-> 1500, total |-> 0,
   loaded |-> 150000, bwEstimate |-> 0, bufferLen |-> 50, minAutoLevel |-> 0,
   loader |-> TRUE]
TickBehind == [TickOnTime EXCEPT !.requestDelay = 3000, !.loaded = 30000, !.bufferLen = 10]
TickEnvs == {TickOnTime, TickBehind}

ReadBase ==
  [media |-> TRUE, playbackRate |-> 10, bufferLen |-> 20, latency |-> 15,
   targetLatency |-> 15, isLive |-> TRUE, bandwidthEstimate |-> 1000000,
   minAutoLevel |-> 0, maxAutoLevel |-> NumLevels - 1, live |-> TRUE,
   detailsType |-> "", avgDuration |-> 0, loadMs |-> 1000, loaded |-> 250000,
   w0 |-> 2, w |-> <<10, 0, 0>>, paused |-> FALSE, seeking |-> FALSE]
\* the environments a read meets, by the rule that reads them: the ladder
\* is below, inside and above the estimate; the buffer is empty or holds a
\* fragment; w is a corner of the simplex
ReadEnvs ==
  LET envs(bws, lens, ws) ==
        {[ReadBase EXCEPT !.bandwidthEstimate = bw, !.bufferLen = len, !.w = w] :
           bw \in bws, len \in lens, w \in ws}
  IN  CASE ABRRule = "L2ARule" ->
             envs({200000, 4000000}, {0, 20}, {<<10, 0, 0>>, <<0, 0, 10>>})
        [] ABRRule = "Llama" -> envs({200000, 1000000, 4000000}, {20}, {<<10, 0, 0>>})
        [] ABRRule = "StallionRule" -> envs({200000, 4000000}, {0, 20}, {<<10, 0, 0>>})
        [] OTHER -> envs({200000, 1000000, 4000000}, {0, 20}, {<<10, 0, 0>>})

\* the levels the stream controller assigns to nextAutoLevel: a level
\* below the top of the ladder, and -1 to lift the cap (an emergency abort
\* forces the other levels)
ForcedLevels == {-1, 1}

Next ==
  \/ \E d \in LoadingData : FRAG_LOADING(d[1], d[2]) /\ UNCHANGED hist
  \/ \E d \in LoadedData : FRAG_LOADED(d[1], d[2]) /\ UNCHANGED hist
  \/ \E d \in BufferedData : FRAG_BUFFERED(d[1], d[2]) /\ UNCHANGED hist
  \/ \E details \in ErrorDetails : ERROR(details) /\ UNCHANGED hist
  \/ \E env \in TickEnvs : Tick(env) /\ UNCHANGED hist
  \/ \E renv \in ReadEnvs : getNextAutoLevel(renv) /\ UNCHANGED hist
  \/ \E k \in ForcedLevels : SetNextAutoLevel(k) /\ UNCHANGED hist

Init == InitWith(RuleTags) /\ hist = NoHistory
Spec == Init /\ [][Next]_vars

\* ------------------------------------------------------------------------
\* A live stream whose measured throughput stays at the lowest rendition's
\* bit rate: one fragment of level 0 is loaded again and again, the player
\* may stall, and nextAutoLevel is read under the L2A rule.
OutageFragment == Fragment(0, 0, "main", FALSE, StatsWhole)
OutageRead == [ReadBase EXCEPT !.bandwidthEstimate = LevelAt(0).bitrate]

NextOutage ==
  \/ FRAG_LOADING(OutageFragment, Whole) /\ UNCHANGED hist
  \/ FRAG_LOADED(OutageFragment, Whole) /\ UNCHANGED hist
  \/ ERROR("bufferStalledError") /\ UNCHANGED hist
  \/ getNextAutoLevel(OutageRead) /\ UNCHANGED hist

InitOutage == InitWith({"L2ARule"}) /\ hist = NoHistory
SpecOutage == InitOutage /\ [][NextOutage]_vars

\* ------------------------------------------------------------------------
\* The life of a controller: fragments load, fail or are abandoned, the
\* level is read while the controller lives, and destroy() ends it.  Events
\* of hls keep arriving afterwards.
LifecycleData ==
  { <<Fragment(InitSegment, 0, "main", FALSE, StatsWhole), Whole>>,
    <<Fragment(0, 2, "main", FALSE, StatsWhole), Whole>>,
    <<Fragment(MaxSn, 1, "main", FALSE, StatsWhole), InParts>> }
LifecycleErrors == {"fragLoadError", "fragLoadTimeOut", "bufferStalledError"}
LifecycleReads == {ReadBase, [ReadBase EXCEPT !.bufferLen = 0]}

NextLifecycle ==
  \/ \E d \in LifecycleData : FRAG_LOADING(d[1], d[2]) /\ UNCHANGED hist
  \/ \E d \in LifecycleData : FRAG_LOADED(d[1], d[2]) /\ UNCHANGED hist
  \/ \E details \in LifecycleErrors : ERROR(details) /\ UNCHANGED hist
  \/ \E env \in TickEnvs : Tick(env) /\ UNCHANGED hist
  \/ \E renv \in LifecycleReads : registered /\ getNextAutoLevel(renv) /\ UNCHANGED hist
  \/ Destroy /\ UNCHANGED hist

InitLifecycle == InitWith({"L2ARule", "other"}) /\ hist = NoHistory
SpecLifecycle == InitLifecycle /\ [][NextLifecycle]_vars

\* ------------------------------------------------------------------------
\* The page changes the rule tag between reads.
SwitchData == { <<Fragment(MaxSn, 1, "main", FALSE, StatsWhole), Whole>> }

NextSwitch ==
  \/ \E tag \in RuleTags : SetABRRule(tag) /\ UNCHANGED hist
  \/ getNextAutoLevel(ReadBase) /\ UNCHANGED hist
  \/ \E d \in SwitchData : FRAG_LOADING(d[1], d[2]) /\ UNCHANGED hist
  \/ \E d \in SwitchData : FRAG_LOADED(d[1], d[2]) /\ UNCHANGED hist

InitSwitch == InitWith(RuleTags) /\ hist = NoHistory
SpecSwitch == InitSwitch /\ [][NextSwitch]_vars

\* ------------------------------------------------------------------------
\* The interval callback under many load and buffer conditions: the load is
\* in its first half or beyond, slow or fast; the buffer holds 0 s to 5 s;
\* playback at rate 1 or 2; the lowest level allowed is 0 or 1.
AbandonData ==
  { <<Fragment(0, 2, "main", FALSE, StatsWhole), Whole>>,
    <<Fragment(MaxSn, 2, "main", FALSE, StatsWhole), InParts>>,
    <<Fragment(1, 1, "main", FALSE, StatsWhole), Whole>> }
AbandonEnvs ==
  { [TickOnTime EXCEPT !.requestDelay = rd, !.loaded = ld, !.bufferLen = len,
                       !.playbackRate = rate, !.minAutoLevel = min,
                       !.loader = loader] :
      rd \in {900, 1100}, ld \in {30000, 100000},
      len \in {0, 10, 30, 35, 50}, rate \in {10, 20}, min \in {0, 1},
      loader \in BOOLEAN }
  \cup { TickBehind, [TickBehind EXCEPT !.aborted = TRUE] }

NextAbandon ==
  \/ \E d \in AbandonData : FRAG_LOADING(d[1], d[2]) /\ UNCHANGED hist
  \/ \E d \in AbandonData : FRAG_LOADED(d[1], d[2]) /\ UNCHANGED hist
  \/ \E env \in AbandonEnvs : Tick(env) /\ UNCHANGED hist

InitAbandon == InitWith({"other"}) /\ hist = NoHistory
SpecAbandon == InitAbandon /\ [][NextAbandon]_vars

\* ------------------------------------------------------------------------
\* Fragments are loaded and buffered, each event delivered once per
\* fragment and FRAG_BUFFERED after FRAG_LOADED: a chunked fragment, a
\* bitrate-test fragment, an aborted one, an init segment, an audio fragment.
BufferedFrags ==
  { Fragment(0, 1, "main", FALSE, StatsChunked),
    Fragment(1, 0, "main", TRUE, StatsWhole),
    Fragment(2, 2, "main", FALSE, StatsAborted),
    Fragment(3, 1, "audio", FALSE, StatsWhole),
    Fragment(InitSegment, 0, "main", FALSE, StatsWhole) }

\* the handler of FRAG_LOADED clears frag.bitrateTest (line 379)
AfterLoaded(frag) ==
  IF frag.type = "main" /\ frag.sn # InitSegment
    THEN [frag EXCEPT !.bitrateTest = FALSE] ELSE frag

Sampled(h, n) == [h EXCEPT !.samples = @ + n]

LoadedOnce(frag) ==
  /\ ~hist[frag.sn].loaded
  /\ FRAG_LOADED(frag, Whole)
  /\ hist' = [hist EXCEPT ![frag.sn] = Sampled([@ EXCEPT !.loaded = TRUE],
                                               Len(out'.samples))]

BufferedOnce(frag) ==
  /\ hist[frag.sn].loaded /\ ~hist[frag.sn].buffered
  /\ FRAG_BUFFERED(AfterLoaded(frag), Whole)
  /\ hist' = [hist EXCEPT ![frag.sn] = Sampled([@ EXCEPT !.buffered = TRUE],
                                               Len(out'.samples))]

NextBuffered ==
  \/ \E frag \in BufferedFrags : FRAG_LOADING(frag, Whole) /\ UNCHANGED hist
  \/ \E frag \in BufferedFrags : LoadedOnce(frag)
  \/ \E frag \in BufferedFrags : BufferedOnce(frag)

InitBuffered == InitWith({"other"}) /\ hist = NoHistory
SpecBuffered == InitBuffered /\ [][NextBuffered]_vars

\* ------------------------------------------------------------------------
\* The interval callback interleaved with the events of fragments that are
\* each requested once, in the order FRAG_LOADING, then FRAG_LOADED or a
\* load error: the init segment of level 2 and two media fragments.
InterleaveData ==
  { <<Fragment(InitSegment, 2, "main", FALSE, StatsWhole), Whole>>,
    <<Fragment(0, 2, "main", FALSE, StatsWhole), Whole>>,
    <<Fragment(1, 2, "main", FALSE, StatsWhole), InParts>> }

LoadingFirst(d) ==
  /\ ~hist[d[1].sn].loading
  /\ FRAG_LOADING(d[1], d[2])
  /\ hist' = [hist EXCEPT ![d[1].sn].loading = TRUE]

LoadedAfterLoading(d) ==
  /\ hist[d[1].sn].loading /\ ~hist[d[1].sn].loaded
  /\ FRAG_LOADED(d[1], d[2])
  /\ hist' = [hist EXCEPT ![d[1].sn].loaded = TRUE]

NextInterleave ==
  \/ \E d \in InterleaveData : LoadingFirst(d)
  \/ \E d \in InterleaveData : LoadedAfterLoading(d)
  \/ \E details \in {"fragLoadError", "bufferStalledError"} : ERROR(details) /\ UNCHANGED hist
  \/ \E env \in TickEnvs \cup {[TickBehind EXCEPT !.loader = FALSE]} : Tick(env) /\ UNCHANGED hist

InitInterleave == InitWith({"other"}) /\ hist = NoHistory
SpecInterleave == InitInterleave /\ [][NextInterleave]_vars

\* ------------------------------------------------------------------------
\* The Llama rule in a closed loop under constant throughput: the player
\* requests fragment after fragment, each FRAG_LOADING followed by its
\* FRAG_LOADED and one read of nextAutoLevel.  hist holds the run's
\* throughput T (bits/s), the level the next fragment is requested at
\* (decided) and the number of leading fragments requested at the starting
\* level whatever was decided (hold; 0: every fragment follows the last
\* decision).  Only the distance of frag.sn to sn0 is read, so sequence
\* numbers stop growing at LlamaMaxSn.
LlamaMaxSn == 7
LlamaThroughputs == {200000, 300000, 750000, 1000000, 1500000, 4000000}

\* what a read meets: the estimate and the fragment's measured throughput
\* (8 * loaded / (loading.end - loading.start)) are both T
LlamaRead(T) ==
  [ReadBase EXCEPT !.bandwidthEstimate = T, !.loaded = T \div 8, !.loadMs = 1000]

LoopFragment(sn, level) == Fragment(sn, level, "main", FALSE, StatsWhole)

LoopLoading ==
  /\ fragCurrent = Null \/ out.op = "get nextAutoLevel"
  /\ LET last == IF fragCurrent = Null THEN -1 ELSE The(fragCurrent).sn
         sn == IF last < LlamaMaxSn THEN last + 1 ELSE last
     IN  FRAG_LOADING(LoopFragment(sn, hist.decided), Whole)
  /\ UNCHANGED hist

LoopLoaded ==
  /\ out.op = "FRAG_LOADING"
  /\ FRAG_LOADED(LoopFragment(The(fragCurrent).sn, The(fragCurrent).level), Whole)
  /\ UNCHANGED hist

LoopRead ==
  /\ out.op = "FRAG_LOADED"
  /\ getNextAutoLevel(LlamaRead(hist.T))
  /\ hist' = [hist EXCEPT !.decided = IF The(fragCurrent).sn + 1 > hist.hold
                                        THEN out'.ret ELSE @]

NextLlama == LoopLoading \/ LoopLoaded \/ LoopRead

InitLlama ==
  /\ InitWith({"Llama"})
  /\ hist \in [T : LlamaThroughputs, decided : LevelIds, hold : {0, 5}]
\* the player never stops requesting fragments
SpecLlama == InitLlama /\ [][NextLlama]_vars /\ WF_vars(NextLlama)

\* ------------------------------------------------------------------------
\* The Stallion rule read under steady and changing throughput and latency,
\* live and on demand, with an empty and a filled buffer, between the loads
\* of fragments of the lowest and of the highest level.
StallionData ==
  { <<Fragment(0, 0, "main", FALSE, StatsWhole), Whole>>,
    <<Fragment(1, 2, "main", FALSE, StatsWhole), Whole>> }
StallionEnvs ==
  { [ReadBase EXCEPT !.bandwidthEstimate = bw, !.latency = latency,
                     !.bufferLen = len, !.isLive = live] :
      bw \in {200000, 4000000}, latency \in {25, 40}, len \in {0, 20},
      live \in BOOLEAN }

NextStallion ==
  \/ \E d \in StallionData : FRAG_LOADING(d[1], d[2]) /\ UNCHANGED hist
  \/ \E d \in StallionData : FRAG_LOADED(d[1], d[2]) /\ UNCHANGED hist
  \/ \E renv \in StallionEnvs : getNextAutoLevel(renv) /\ UNCHANGED hist

InitStallion == InitWith({"StallionRule"}) /\ hist = NoHistory
SpecStallion == InitStallion /\ [][NextStallion]_vars

\* ------------------------------------------------------------------------
\* euclideanProjection on its own: hist holds the vector w handed to one call
\* and, after the call, the vector x it returned.  The inputs are the vectors
\* of 1 .. ProjectionMaxLen components k / 2, -3 <= k <= 3.
ProjectionMaxLen == 3
ProjectionGrid == { Frac(k, 2) : k \in -3 .. 3 }
ProjectionInputs ==
  UNION { [1 .. n -> ProjectionGrid] : n \in 1 .. ProjectionMaxLen }

Project ==
  /\ hist.x = Null
  /\ hist' = [hist EXCEPT !.x = Some(euclideanProjection(hist.w))]
  /\ UNCHANGED <<orchVars, ruleVars, out>>

InitProjection ==
  /\ InitWith({"L2ARule"})
  /\ hist \in [w : ProjectionInputs, x : {Null}]
SpecProjection == InitProjection /\ [][Project]_vars

\* ------------------------------------------------------------------------
\* findWeightVector on its own: hist holds the arguments of one call, the
\* selector it is called on and, after the call, the value returned.  The
\* neurons are those of a ladder of bitrates 1 and 3 with equal latencies; the
\* selector has the target latency 1.5 s and the minimum buffer 0.3 s of
\* _lolpLearningAbr and 2 s fragments.
WeightNeurons ==
  {<<>>} \cup { <<[bitrate |-> 1, latency |-> l], [bitrate |-> 3, latency |-> l]>> :
                   l \in {0, 100000} }
WeightSelectors ==
  { [targetLatency |-> 150000, bufferMin |-> 30000, segmentDuration |-> 200000,
     previousLatency |-> l, maxBitrateKbps |-> 3, minBitrateKbps |-> 1] :
      l \in {0, 400000} }
WeightCalls ==
  [neurons : WeightNeurons, currentLatency : {0, 150000, 400000},
   currentBuffer : {0, 100000, 300000}, currentThroughput : {0, 1, 2, 4},
   playbackRate : {10, 12}, sel : WeightSelectors]

FindWeightVector ==
  /\ hist.ret = Null
  /\ hist' = [hist EXCEPT !.ret =
                Some(findWeightVector(hist.call.neurons, hist.call.currentLatency,
                                      hist.call.currentBuffer, hist.call.currentThroughput,
                                      hist.call.playbackRate, hist.call.sel))]
  /\ UNCHANGED <<orchVars, ruleVars, out>>

InitWeights ==
  /\ InitWith({"LoLp"})
  /\ hist \in [call : WeightCalls, ret : {Null}]
SpecWeights == InitWeights /\ [][FindWeightVector]_vars

\* ------------------------------------------------------------------------
\* The L2A rule across stalls and other errors.  The rule's decisions read
\* neither l2AState.lastSegmentStart nor lastSegmentRequestTimeMs nor
\* lastSegmentFinishTimeMs, so only this specification keeps them, in hist
\* (<<>> is NaN).  Fragment sn starts at sn * duration; it is requested at
\* 1000 * sn ms and parsed 500 ms later.
NoSegment ==
  [lastSegmentStart |-> Null, lastSegmentRequestTimeMs |-> Null,
   lastSegmentFinishTimeMs |-> Null]

\* _checkNewSegment
_checkNewSegment(l2AState) ==
  IF l2AState.lastSegmentStart # Null /\ l2AState.lastSegmentRequestTimeMs # Null
    THEN [l2AState EXCEPT !.lastSegmentStart = Null, !.lastSegmentRequestTimeMs = Null]
    ELSE l2AState

SeekData ==
  { Fragment(0, 0, "main", FALSE, StatsWhole), Fragment(1, 2, "main", FALSE, StatsWhole) }
SeekErrors == {"bufferStalledError", "fragLoadError", "bufferSeekOverHole"}

SeekLoading(frag) == FRAG_LOADING(frag, Whole) /\ UNCHANGED hist

\* FRAG_LOADED: _onMediaFragmentLoaded also sets lastSegmentStart
SeekLoaded(frag) ==
  /\ FRAG_LOADED(frag, Whole)
  /\ hist' = IF L2AListening
               THEN _checkNewSegment([hist EXCEPT !.lastSegmentStart = Some(frag.sn * frag.duration)])
               ELSE hist

\* FRAG_PARSED, to which only the rule listens: _onMetricAdded
SeekParsed(frag) ==
  /\ L2AListening
  /\ hist' = _checkNewSegment([hist EXCEPT !.lastSegmentRequestTimeMs = Some(1000 * frag.sn),
                                           !.lastSegmentFinishTimeMs = Some(1000 * frag.sn + 500)])
  /\ out' = Quiet("FRAG_PARSED")
  /\ UNCHANGED <<orchVars, ruleVars>>

\* ERROR: _onPlaybackSeeking also runs _clearL2AStateOnSeek
SeekError(details) ==
  /\ ERROR(details)
  /\ hist' = IF L2AListening /\ details = "bufferStalledError" THEN NoSegment ELSE hist

\* reads with the buffer empty, just below, at and above B_target, with the
\* latency on the target and more than a fragment away from it
SeekReads ==
  { [ReadBase EXCEPT !.bandwidthEstimate = 4000000, !.bufferLen = bufferLen,
                     !.latency = latency] :
      bufferLen \in {0, 14, 15, 20}, latency \in {15, 40} }
SeekRead == \E renv \in SeekReads : getNextAutoLevel(renv) /\ UNCHANGED hist

NextSeek ==
  \/ \E frag \in SeekData : SeekLoading(frag)
  \/ \E frag \in SeekData : SeekLoaded(frag)
  \/ \E frag \in SeekData : SeekParsed(frag)
  \/ \E details \in SeekErrors : SeekError(details)
  \/ SeekRead

InitSeek == InitWith({"L2ARule"}) /\ hist = NoSegment
SpecSeek == InitSeek /\ [][NextSeek]_vars

\* ------------------------------------------------------------------------
\* Properties.
IsRead == out.op = "get nextAutoLevel"
Returned == IsRead /\ ~out.threw

\* C1: every value a read of nextAutoLevel returns is a level index,
\* 0 .. |levels| - 1, whatever the rule tag.
C1_ReturnInRange == Returned => out.ret \in LevelIds

\* C2: a read of nextAutoLevel never throws, in every reachable state and
\* for every rule tag.
C2_ReadNeverThrows == IsRead => ~out.threw

\* C3: the level a read returns has the codecSet of
\* levels[lastLoadedFragLevel].
C3_SameCodecSet ==
  (Returned /\ out.ret \in LevelIds) =>
    LevelAt(out.ret).codecSet = LevelAt(lastLoadedFragLevel).codecSet

\* C10: while a level k # -1 is forced, a read returns k when the estimator
\* cannot estimate, and otherwise the smaller of k and the rule's decision.
C10_ForcedLevelCaps ==
  (Returned /\ _nextAutoLevel # -1) =>
    /\ out.ret <= _nextAutoLevel
    /\ out.ret = IF ~bwCanEstimate THEN _nextAutoLevel
                 ELSE Min(_nextAutoLevel, The(out.in).decision)

\* a read under a forced level 1 whose rule decided level 2
C10_Witness ==
  /\ Returned /\ _nextAutoLevel = 1 /\ bwCanEstimate
  /\ The(out.in).decision = 2 /\ out.ret = 1

\* C4: once destroy() has run, no listener of the core is attached (those
\* of an L2A rule included), the timer is not armed, and every event that
\* arrives leaves the controller and its rules as they are.
EventOps == {"FRAG_LOADING", "FRAG_LOADED", "FRAG_BUFFERED", "ERROR"}
C4_DestroyedIsInert ==
  [][~registered =>
       /\ ~timer
       /\ ~L2AListening
       /\ (out'.op \in EventOps => UNCHANGED <<orchVars, ruleVars>>)]_vars

\* C6: after a read, no rule but the one of the current tag is
\* instantiated: a rule whose tag was left has been torn down and no longer
\* listens.
C6_OldRuleTornDown ==
  IsRead =>
    /\ ABRRule # "L2ARule" => l2aRule = Null
    /\ ABRRule # "Llama" => llama = Null
    /\ ABRRule # "StallionRule" => stallionRule = Null

\* C7: the timer armed for a main fragment, init segments included, is not
\* armed after that fragment's FRAG_LOADED, after an emergency abort, after
\* FRAG_LOAD_ERROR or FRAG_LOAD_TIMEOUT, and after destroy().
C7_TimerReleased ==
  [][registered =>
       /\ \A d \in LifecycleData :
            (timer /\ fragCurrent = Some(FragRef(d[1])) /\ FRAG_LOADED(d[1], d[2]))
              => ~timer'
       /\ out'.abort => ~timer'
       /\ \A details \in {"fragLoadError", "fragLoadTimeOut"} :
            ERROR(details) => ~timer'
       /\ Destroy => ~timer']_vars

\* C5: a main fragment that is no init segment, was not aborted and has
\* been buffered was sampled exactly once, the sample of FRAG_LOADED for a
\* bitrate test included.
Counted(frag) ==
  frag.type = "main" /\ frag.sn # InitSegment /\ ~frag.stats.aborted
C5_SampledOnce ==
  \A frag \in BufferedFrags :
    (Counted(frag) /\ hist[frag.sn].buffered) => hist[frag.sn].samples = 1

\* C8: a run of the interval callback does not abandon the fragment (no
\* FRAG_LOAD_EMERGENCY_ABORTED, no forced level, no loader abort, no sample)
\* while bufferStarvationDelay >= 2 * duration / playbackRate or
\* fragLoadedDelay <= bufferStarvationDelay.
C8_NoAbortWithoutStarvation ==
  [][(out'.op = "tick" /\ fragCurrent # Null) =>
       LET env == The(out'.in)
           frag == The(fragCurrent)
           starvation == BufferStarvationDelay(env)
       IN  (\/ FracLeq(TwoFragments(frag, partCurrent, env), starvation)
            \/ FracLeq(FragLoadedDelay(frag, partCurrent, env), starvation))
             => /\ ~out'.abort /\ ~out'.loaderAbort /\ out'.samples = <<>>
                /\ out'.nextLoadLevel = -1]_vars

\* a monitored load that will arrive before the buffer runs dry, with less
\* than two fragments buffered and a lower level that would load faster
\* still: the callback leaves it alone
C8_Witness ==
  /\ out.op = "tick" /\ ~out.abort /\ timer /\ fragCurrent # Null
  /\ LET env == The(out.in)
         frag == The(fragCurrent)
         starvation == BufferStarvationDelay(env)
         w == AbandonWalk(frag, partCurrent, env, frag.level - 1, Null)
     IN  /\ AbandonMonitoring(frag, partCurrent, env)
         /\ FracLeq(FragLoadedDelay(frag, partCurrent, env), starvation)
         /\ FracLess(starvation, TwoFragments(frag, partCurrent, env))
         /\ w.delay # Null
         /\ FracLess(The(w.delay), FragLoadedDelay(frag, partCurrent, env))

\* the levels of minAutoLevel .. frag.level - 1 whose nextDelay is below
\* bufferStarvationDelay
SafeLevels(frag, part, env) ==
  {k \in env.minAutoLevel .. frag.level - 1 :
     FracLess(NextLoadedDelay(frag, part, env, k), BufferStarvationDelay(env))}

\* C9: when the callback abandons the fragment, the level it forces is the
\* highest level of minAutoLevel .. frag.level - 1 whose nextDelay is below
\* bufferStarvationDelay if there is such a level, and minAutoLevel if
\* there is none.
C9_ForcesHighestSafeOrLowest ==
  [][(out'.op = "tick" /\ out'.abort) =>
       LET env == The(out'.in)
           frag == The(fragCurrent)
           safe == SafeLevels(frag, partCurrent, env)
       IN  /\ out'.nextLoadLevel \in env.minAutoLevel .. frag.level - 1
           /\ IF safe # {}
                THEN out'.nextLoadLevel \in safe /\ \A k \in safe : k <= out'.nextLoadLevel
                ELSE out'.nextLoadLevel = env.minAutoLevel]_vars

\* a fragment of level 2 was abandoned for level 1, above minAutoLevel 0,
\* the highest level that loads before the buffer runs dry
C9_Witness ==
  /\ out.op = "tick" /\ out.abort /\ ~out.loaderAbort /\ fragCurrent # Null
  /\ LET env == The(out.in)
         frag == The(fragCurrent)
     IN  /\ frag.level = 2 /\ env.minAutoLevel = 0
         /\ 1 \in SafeLevels(frag, partCurrent, env)
         /\ out.nextLoadLevel = 1

\* C9 as stated: when the callback abandons the fragment, the level it
\* forces is the highest level of minAutoLevel .. frag.level - 1 whose
\* nextDelay is below bufferStarvationDelay.
C9_ForcesHighestSafeLevel ==
  [][(out'.op = "tick" /\ out'.abort) =>
       LET env == The(out'.in)
           frag == The(fragCurrent)
           safe == {k \in env.minAutoLevel .. frag.level - 1 :
                      FracLess(NextLoadedDelay(frag, partCurrent, env, k),
                               BufferStarvationDelay(env))}
       IN  /\ safe # {}
           /\ out'.nextLoadLevel \in safe
           /\ \A k \in safe : k <= out'.nextLoadLevel]_vars

\* C11: FRAG_LOAD_EMERGENCY_ABORTED is raised only while the timer is armed,
\* it disarms the timer (at most one abort per arming), and it is not raised
\* for a fragment whose FRAG_LOADED was already handled.
C11_AbortOnlyWhileLoading ==
  [][out'.abort =>
       /\ timer /\ ~timer'
       /\ fragCurrent # Null
       /\ hist[The(fragCurrent).sn].loading
       /\ ~hist[The(fragCurrent).sn].loaded]_vars

\* max{i : levels[i].bitrate <= T}, for T at or above the lowest bitrate
Target(T) ==
  CHOOSE i \in LevelIds :
    /\ LevelAt(i).bitrate <= T
    /\ \A j \in LevelIds : LevelAt(j).bitrate <= T => j <= i

\* C12: Llama under constant throughput T, every fragment loaded at the
\* level last decided: from some read on the decision stays forever at
\* max{i : bitrate[i] <= T}, whatever the starting level.
C12_LlamaStabilises ==
  <>[]((hist.hold = 0 /\ hist.T >= MinBitrate) => hist.decided = Target(hist.T))

\* a sampled call of LlamaABR.getMaxIndex: the step is a read past the
\* warm-up window, |fragCurrent.sn - sn0| >= 5
SampledRead ==
  /\ out'.op = "get nextAutoLevel" /\ ~out'.threw /\ out'.in # Null
  /\ fragCurrent # Null /\ llama' # Null
  /\ Abs(The(fragCurrent).sn - The(llama').sn0) >= 5

\* C13: on a sampled call with lastThroughput < bitrate[currentQuality] and
\* currentQuality > 0, Llama decides currentQuality - 1.
C13_LlamaSwitchesDown ==
  [][(SampledRead /\ hist.T < LevelAt(lastLoadedFragLevel).bitrate
                  /\ lastLoadedFragLevel > 0)
       => The(out'.in).decision = lastLoadedFragLevel - 1]_vars

\* a window after one call pushed x and dropped the oldest sample beyond size
Window(arr, x, size) ==
  IF Len(arr) + 1 > size THEN Tail(Append(arr, x)) ELSE Append(arr, x)
AllEqual(arr) == \A i \in 1 .. Len(arr) : arr[i] = arr[1]

\* the step is a call of StallionRule.getMaxIndex with inputs renv whose
\* throughput window and latency window have zero variance
ZeroVarianceCall(renv) ==
  /\ ABRRule = "StallionRule" /\ ~ReturnsForced /\ out'.op = "get nextAutoLevel"
  /\ LET rule == IF stallionRule = Null THEN NewStallionRule ELSE The(stallionRule)
     IN  /\ AllEqual(Window(rule.throughputArr, renv.bandwidthEstimate \div 1000,
                            THROUGHPUT_SAMPLE_AMOUNT))
         /\ AllEqual(Window(rule.latencyArr, renv.latency, LATENCY_SAMPLE_AMOUNT))
  /\ getNextAutoLevel(renv)

\* getQualityForBitrate(mean throughput, mean latency) of such a call: the
\* means are the samples themselves
QualityOfMeans(renv) ==
  StallionQualityForBitrate(<<renv.bandwidthEstimate \div 1000, 1>>, <<renv.latency, 1>>,
                            <<Abs(renv.latency - renv.targetLatency), 1>>)

\* C14: with zero-variance windows, getMaxIndex returns
\* getQualityForBitrate(mean throughput, mean latency) when a fragment is
\* current, the mean latency is less than one fragment duration from the
\* target latency and the buffer is not empty, and currentQuality otherwise.
C14_ZeroVarianceDegenerates ==
  [][\A renv \in StallionEnvs :
       ZeroVarianceCall(renv) =>
         The(out'.in).decision =
           IF /\ fragCurrent # Null
              /\ Abs(renv.latency - renv.targetLatency) < The(fragCurrent).duration
              /\ renv.bufferLen > 0
             THEN QualityOfMeans(renv)
             ELSE lastLoadedFragLevel]_vars

\* full windows of equal samples (4000 kbit/s, latency 1 s over the target)
\* after a level-0 fragment: the call returned level 2, the highest level at
\* most half of 4000 kbit/s
C14_Witness ==
  /\ out.op = "get nextAutoLevel" /\ ABRRule = "StallionRule" /\ stallionRule # Null
  /\ The(stallionRule).throughputArr = <<4000, 4000, 4000>>
  /\ The(stallionRule).latencyArr = <<25, 25, 25, 25>>
  /\ fragCurrent # Null /\ lastLoadedFragLevel = 0
  /\ out.ret = 2

\* C14 as stated: with zero-variance windows, getMaxIndex returns exactly
\* getQualityForBitrate(mean throughput, mean latency).
C14_AlwaysQualityOfMeans ==
  [][\A renv \in StallionEnvs :
       ZeroVarianceCall(renv) => The(out'.in).decision = QualityOfMeans(renv)]_vars

RECURSIVE FracSum(_)
FracSum(x) == IF x = <<>> THEN <<0, 1>> ELSE FracAdd(Head(x), FracSum(Tail(x)))

\* C15, the function: every vector euclideanProjection returns has
\* components >= 0 that sum to exactly 1, in the order of the input's.
C15_ProjectionOnSimplex ==
  hist.x # Null =>
    LET w == hist.w
        x == The(hist.x)
    IN  /\ Len(x) = Len(w)
        /\ \A i \in 1 .. Len(x) : x[i][1] >= 0
        /\ FracSum(x) = <<1, 1>>
        /\ \A i, j \in 1 .. Len(x) : FracLeq(w[i], w[j]) => FracLeq(x[i], x[j])

\* (1.5, -0.5, 1) was projected to (0.75, 0, 0.25)
C15_ProjectionWitness ==
  /\ hist.w = <<<<3, 2>>, <<-1, 2>>, <<1, 1>>>>
  /\ hist.x = Some(<<<<3, 4>>, <<0, 1>>, <<1, 4>>>>)

\* C15, the consequence: after every STEADY step prev_w is a probability
\* vector: one weight per level, each >= 0, summing to 1 (ten tenths).
C15_PrevWIsProbability ==
  (l2aRule # Null /\ The(l2aRule).state = L2A_STATE_STEADY) =>
    LET prev_w == The(l2aRule).prev_w
    IN  /\ Len(prev_w) = NumLevels
        /\ \A i \in 1 .. NumLevels : prev_w[i] >= 0
        /\ SeqSum(prev_w) = 10

C17_StallResetsL2A ==
  [][\A details \in SeekErrors :
       (l2aRule # Null /\ SeekError(details)) =>
         IF details = "bufferStalledError"
           THEN /\ l2aRule' # Null
                /\ The(l2aRule').state = L2A_STATE_STARTUP
                /\ The(l2aRule').lastSegmentDurationS = Null
                /\ hist'.lastSegmentStart = Null
                /\ hist'.lastSegmentRequestTimeMs = Null
                /\ hist'.lastSegmentFinishTimeMs = Null
           ELSE l2aRule' = l2aRule /\ hist' = hist]_vars

\* a rule that had reached STEADY (prev_w was set) is in STARTUP with every
\* lastSegment field cleared right after an ERROR event
C17_Witness ==
  /\ out.op = "ERROR" /\ l2aRule # Null
  /\ The(l2aRule).prev_w # <<>>
  /\ The(l2aRule).state = L2A_STATE_STARTUP
  /\ The(l2aRule).lastSegmentDurationS = Null
  /\ hist = NoSegment

\* C18: a stall (an ERROR event with details BUFFER_STALLED_ERROR) while
\* the Llama rule is active resets the rule's sn0 to the sn of the fragment
\* current at the stall, so that the warm-up window is entered again.
C18_StallResetsSn0 ==
  [][(/\ ABRRule = "Llama" /\ llama # Null /\ fragCurrent # Null
      /\ ERROR("bufferStalledError"))
       => (llama' # Null /\ The(llama').sn0 = The(fragCurrent).sn)]_vars

\* C19: the L2A state changes from STARTUP to STEADY only in a read whose
\* STARTUP decision does not abstain, with lastSegmentDurationS valid and
\* bufferLevel >= B_target; right after, Q = vl and prev_w is the indicator
\* vector of the quality this decision returned, which is lastQuality.
C19_StartupToSteady ==
  [][(/\ l2aRule = Null \/ The(l2aRule).state = L2A_STATE_STARTUP
      /\ l2aRule' # Null /\ The(l2aRule').state = L2A_STATE_STEADY)
       => /\ out'.op = "get nextAutoLevel" /\ out'.in # Null
          /\ l2aRule # Null /\ The(l2aRule).lastSegmentDurationS # Null
          /\ \A renv \in SeekReads :
               getNextAutoLevel(renv) =>
                 /\ renv.bufferLen >= B_target
                 /\ ~(/\ renv.isLive
                       /\ \/ fragCurrent = Null
                          \/ Abs(renv.latency - renv.targetLatency) >= The(fragCurrent).duration)
          /\ The(l2aRule').Q = QPow2(0)
          /\ The(l2aRule').lastQuality = The(out'.in).decision
          /\ The(l2aRule').prev_w =
               [i \in 1 .. NumLevels |-> IF i = The(out'.in).decision + 1 THEN 10 ELSE 0]]_vars

\* a read that decided level 2 has just taken the rule to STEADY
C19_Witness ==
  /\ out.op = "get nextAutoLevel" /\ out.in # Null /\ The(out.in).decision = 2
  /\ l2aRule # Null /\ The(l2aRule).state = L2A_STATE_STEADY
  /\ The(l2aRule).Q = QPow2(0)
  /\ The(l2aRule).prev_w = <<0, 0, 10>>

\* C20: after the FRAG_LOADING handler ran for a main fragment the timer
\* is armed and fragCurrent and partCurrent are that event's frag and part
\* (null when the event has no part), whatever events came before.
C20_LoadingRecordsCurrent ==
  [][\A d \in InterleaveData :
       (registered /\ d[1].type = "main" /\ FRAG_LOADING(d[1], d[2]))
         => /\ timer'
            /\ fragCurrent' = Some(FragRef(d[1]))
            /\ partCurrent' = PartRef(d[2])]_vars

\* ------------------------------------------------------------------------
\* The LearningAbrController one LoL+ decision works on.  somBitrateNeurons
\* holds the neurons' bit rates once _getSomBitrateNeurons has built them,
\* weights the throughput weight the weight selection left, and updates
\* counts the _updateNeurons passes that have moved the neurons' states.
LearningAbrControllerNew ==
  [somBitrateNeurons |-> Null, weights |-> Null, updates |-> 0]

_getSomBitrateNeurons(ctrl) ==
  IF ctrl.somBitrateNeurons = Null
    THEN [ctrl EXCEPT !.somBitrateNeurons =
                        Some([i \in 1 .. NumLevels |-> LevelAt(i - 1).bitrate])]
    ELSE ctrl

\* what getNextQuality leaves in the controller it is called on
getNextQualityLeaves(ctrl, throughput, buffer, segmentDuration, currentQualityIndex, w0) ==
  LET c == _getSomBitrateNeurons(ctrl)
  IN  IF BufferLowFor(LevelAt(currentQualityIndex).bitrate, buffer, segmentDuration, throughput)
        THEN c
        ELSE [c EXCEPT !.weights = Some(w0), !.updates = @ + 2]

\* _lolpLearningAbr gets past its early returns
LoLpReachesQuality(renv) ==
  renv.detailsType \in {"", "VOD"} /\ fragCurrent # Null /\ renv.media

\* the controller _lolpLearningAbr constructs, and the same controller when
\* _lolpLearningAbr returns
LoLpControllerLeft(renv) ==
  IF LoLpReachesQuality(renv)
    THEN getNextQualityLeaves(LearningAbrControllerNew, renv.bandwidthEstimate,
                              renv.bufferLen, The(fragCurrent).duration,
                              lastLoadedFragLevel, renv.w0)
    ELSE LearningAbrControllerNew

\* ------------------------------------------------------------------------
\* Catch-up playback rate.  Rates are in thousandths, latencies and buffer
\* levels in tenths of a second.
liveCatchupPlaybackRate == 300
\* hundredths of a second
liveCatchUpMinDrift == 5
playbackBufferMin == 5
liveCatchupLatencyThreshold == 600

\* 1000 / (1 + e^(-d)) for d = halves / 2, rounded; |d| is at most 4 for the
\* latencies and buffer levels read here
LogisticTable == <<622, 731, 818, 881, 924, 953, 971, 982>>
Logistic(halves) ==
  IF halves = 0 THEN 500
  ELSE IF halves > 0 THEN LogisticTable[Min(halves, Len(LogisticTable))]
  ELSE 1000 - LogisticTable[Min(0 - halves, Len(LogisticTable))]

_lolpNeedToCatchUpCustom(currentLiveLatency, liveDelay, currentBuffer) ==
  /\ currentLiveLatency <= liveCatchupLatencyThreshold
  /\ \/ Abs(currentLiveLatency - liveDelay) * 10 > liveCatchUpMinDrift
     \/ currentBuffer < playbackBufferMin

\* the new rate, Null when it is within 0.02 of the current one
_calculateNewPlaybackRateLolP(currentLiveLatency, liveDelay, bufferLevel, currentPlaybackRate) ==
  LET cpr == liveCatchupPlaybackRate
      sigmoid(halves) == 1000 - cpr + (2 * cpr * Logistic(halves)) \div 1000
      newRate ==
        IF bufferLevel < playbackBufferMin
          THEN sigmoid(bufferLevel - playbackBufferMin)
          ELSE IF Abs(currentLiveLatency - liveDelay) * 100 <= 2 * liveDelay
            THEN 1000
            ELSE sigmoid(currentLiveLatency - liveDelay)
  IN  IF Abs(currentPlaybackRate - newRate) <= 20 THEN Null ELSE Some(newRate)

startPlaybackCatchUp(renv) ==
  LET newRate == _calculateNewPlaybackRateLolP(renv.latency, renv.targetLatency,
                                               renv.bufferLen, renv.playbackRate * 100)
  IN  IF newRate = Null THEN renv.playbackRate * 100 ELSE The(newRate)

_LoLpPlaybackSpeed(renv) ==
  IF /\ renv.media /\ renv.playbackRate > 0 /\ ~renv.paused /\ ~renv.seeking
     /\ _lolpNeedToCatchUpCustom(renv.latency, renv.targetLatency, renv.bufferLen)
    THEN startPlaybackCatchUp(renv)
    ELSE 1000

\* ------------------------------------------------------------------------
\* Reads of nextAutoLevel under each rule tag, between the loads of two
\* fragments, on a stream at and behind its target latency.  hist keeps,
\* of the latest read, the LearningAbrController the LoL+ decision started
\* from and the one it left, whether _LoLpPlaybackSpeed was called, and the
\* rate written to media.playbackRate.
NoDecision == [start |-> Null, left |-> Null, catchUp |-> FALSE, playbackRate |-> Null]

DecisionData ==
  { <<Fragment(0, 0, "main", FALSE, StatsWhole), Whole>>,
    <<Fragment(1, 2, "main", FALSE, StatsWhole), Whole>> }
DecisionEnvs ==
  { [ReadBase EXCEPT !.bandwidthEstimate = bw, !.latency = latency,
                     !.bufferLen = len, !.detailsType = type] :
      bw \in {200000, 4000000}, latency \in {15, 19}, len \in {2, 20},
      type \in {"", "LIVE"} }

Decide(renv) ==
  /\ getNextAutoLevel(renv)
  /\ hist' =
       IF ~ReturnsForced /\ ABRRule = "LoLp"
         THEN [start |-> Some(LearningAbrControllerNew),
               left |-> Some(LoLpControllerLeft(renv)),
               catchUp |-> LoLpReachesQuality(renv),
               playbackRate |-> IF LoLpReachesQuality(renv)
                                  THEN Some(_LoLpPlaybackSpeed(renv)) ELSE Null]
         ELSE [hist EXCEPT !.catchUp = FALSE, !.playbackRate = Null]

NextDecisions ==
  \/ \E d \in DecisionData : FRAG_LOADING(d[1], d[2]) /\ UNCHANGED hist
  \/ \E d \in DecisionData : FRAG_LOADED(d[1], d[2]) /\ UNCHANGED hist
  \/ \E renv \in DecisionEnvs : Decide(renv)

\* the Stallion rule keeps its windows in stallionRule and is read in SpecStallion
DecisionTags == RuleTags \ {"StallionRule"}
InitDecisions == InitWith(DecisionTags) /\ hist = NoDecision
SpecDecisions == InitDecisions /\ [][NextDecisions]_vars

\* a read that reaches the switch on this.ABRRule
IsDecision == out'.op = "get nextAutoLevel" /\ ~ReturnsForced

\* C21: while the rule tag is unchanged, a LoL+ decision starts from the
\* controller state (neurons, selected weights) the previous decision left.
C21_DecisionsShareInstance ==
  [][(IsDecision /\ ABRRule = "LoLp" /\ hist.left # Null)
       => hist'.start = hist.left]_vars

\* C22: every read that reaches the rule dispatch, under every rule tag,
\* calls the catch-up controller and writes the rate it returns to the
\* media element.
C22_EveryDecisionCatchesUp ==
  [][\A renv \in DecisionEnvs :
       (IsDecision /\ renv.media /\ Decide(renv))
         => /\ hist'.catchUp
            /\ hist'.playbackRate = Some(_LoLpPlaybackSpeed(renv))]_vars

\* ------------------------------------------------------------------------
\* Fragments whose statistics range over loading.start <= loading.end <=
\* parsing.end, delivered whole, in four chunks, and in three chunks whose
\* middle moof and mdat were recorded in the same millisecond; the interval
\* callback runs on time and behind while one of them is loading.
SampleBoxes ==
  { << <<>>, <<>> >>,
    << StatsChunked.startTimeData, StatsChunked.endTimeData >>,
    << <<10, 260, 510>>,
       << [timestamp |-> 200, len |-> 60000], [timestamp |-> 260, len |-> 60000],
          [timestamp |-> 700, len |-> 130000] >> >> }
SampleStats ==
  { [StatsWhole EXCEPT !.loadingEnd = le, !.parsingEnd = le + parse,
                       !.startTimeData = box[1], !.endTimeData = box[2],
                       !.boxLoaded = IF box[2] = <<>> THEN 0 ELSE 250000] :
      le \in {0, 1000}, parse \in {0, 100}, box \in SampleBoxes }
SampleData ==
  { Fragment(sn, level, "main", test, stats) :
      sn \in 0 .. 1, level \in 1 .. 2, test \in BOOLEAN, stats \in SampleStats }

NextSamples ==
  \/ \E frag \in SampleData : FRAG_LOADING(frag, Whole) /\ UNCHANGED hist
  \/ \E frag \in SampleData : FRAG_BUFFERED(frag, Whole) /\ UNCHANGED hist
  \/ \E env \in TickEnvs : Tick(env) /\ UNCHANGED hist

InitSamples == InitWith({"other"}) /\ hist = NoHistory
SpecSamples == InitSamples /\ [][NextSamples]_vars

\* the interval callback has just aborted a load and sampled its request delay
SampleOnAbort == out.abort /\ Len(out.samples) = 1

\* C23: every bwEstimator.sample call of the controller (FRAG_BUFFERED and
\* emergency abort) passes a strictly positive durationMs.
C23_SampleDurationsPositive ==
  \A i \in 1 .. Len(out.samples) : out.samples[i].durationMs > 0

\* C27: with box sampling on, when a trimmed startTimeData or endTimeData
\* is empty the FRAG_BUFFERED sample is (parsing.end - loading.start, loaded).
C27_BoxFallbackIsProcessingTime ==
  [][\A frag \in SampleData :
       (/\ registered
        /\ BoxFilter(frag.stats.startTimeData) = <<>> \/ BoxFilter(frag.stats.endTimeData) = <<>>
        /\ FRAG_BUFFERED(frag, Whole))
         => out'.samples = << [durationMs |-> frag.stats.parsingEnd - frag.stats.loadingStart,
                               bytes |-> frag.stats.loaded] >>]_vars

\* ------------------------------------------------------------------------
\* SWBandWidthEstimator.  A number of the window is finite (a rational) or
\* one of Infinity, -Infinity and NaN, as IEEE division yields them.
windowSize == 16
\* the constructor's argument, bits/s
defaultEstimate_ == 500000

Finite(q) == [kind |-> "finite", value |-> q]
NotFinite(kind) == [kind |-> kind, value |-> <<0, 1>>]

\* numBits / (durationMs / 1000)
BitsPerSecond(numBits, durationMs) ==
  IF durationMs > 0 THEN Finite(Frac(numBits * 1000, durationMs))
  ELSE IF durationMs < 0 THEN Finite(Frac(0 - numBits * 1000, 0 - durationMs))
  ELSE IF numBits > 0 THEN NotFinite("Infinity")
  ELSE IF numBits < 0 THEN NotFinite("-Infinity")
  ELSE NotFinite("NaN")

\* prev + curr
NumberAdd(a, b) ==
  IF a.kind = "finite" /\ b.kind = "finite" THEN Finite(FracAdd(a.value, b.value))
  ELSE IF a.kind = "NaN" \/ b.kind = "NaN" THEN NotFinite("NaN")
  ELSE IF a.kind = "finite" THEN b
  ELSE IF b.kind = "finite" \/ a.kind = b.kind THEN a
  ELSE NotFinite("NaN")

\* list.reduce((prev, curr) => prev + curr) of a non-empty list
RECURSIVE Reduce(_)
Reduce(list) ==
  IF Len(list) = 1 THEN list[1]
  ELSE NumberAdd(Reduce(SubSeq(list, 1, Len(list) - 1)), list[Len(list)])

\* the window after sample(durationMs, numBytes)
sample(window, durationMs, numBytes) ==
  Append(IF Len(window) = windowSize THEN Tail(window) ELSE window,
         BitsPerSecond(8 * numBytes, durationMs))

getEstimate(window) ==
  IF Len(window) > 0
    THEN LET sum == Reduce(window)
         IN  IF sum.kind = "finite"
               THEN Finite(Frac(sum.value[1], sum.value[2] * Len(window)))
               ELSE sum
    ELSE Finite(<<defaultEstimate_, 1>>)

\* ------------------------------------------------------------------------
\* One SWBandWidthEstimator fed samples of positive, zero and negative
\* duration and asked for its estimate.  hist holds its window, the
\* arguments of the latest sample call and the latest estimate returned.
MaxSamples == 4
SampleCalls == [durationMs : {-1000, 0, 500, 1000}, numBytes : {0, 125000}]

EstimatorSample(call) ==
  /\ Len(hist.window) < MaxSamples
  /\ hist' = [hist EXCEPT !.window = sample(@, call.durationMs, call.numBytes),
                          !.call = Some(call)]
  /\ UNCHANGED <<orchVars, ruleVars, out>>

EstimatorGetEstimate ==
  /\ hist' = [hist EXCEPT !.estimate = Some(getEstimate(hist.window))]
  /\ UNCHANGED <<orchVars, ruleVars, out>>

NextEstimator ==
  \/ \E call \in SampleCalls : EstimatorSample(call)
  \/ EstimatorGetEstimate

InitEstimator ==
  /\ InitWith({"other"})
  /\ hist = [window |-> <<>>, call |-> Null, estimate |-> Null]
SpecEstimator == InitEstimator /\ [][NextEstimator]_vars

\* C24: a sample of durationMs <= 0 is rejected: the estimator's window and
\* the estimate it returns next are what they were before the call.
C24_NonPositiveSampleRejected ==
  [][\A call \in SampleCalls :
       (call.durationMs <= 0 /\ EstimatorSample(call))
         => /\ hist'.window = hist.window
            /\ getEstimate(hist'.window) = getEstimate(hist.window)]_vars

C26_AbortsWhenALowerLevelIsSafe ==
  [][\A env \in AbandonEnvs :
       (/\ timer /\ fragCurrent # Null /\ env.media
        /\ AbandonMonitoring(The(fragCurrent), partCurrent, env)
        /\ ~NoStarvationAhead(The(fragCurrent), partCurrent, env)
        /\ \E l \in env.minAutoLevel .. The(fragCurrent).level - 1 :
             LET nextDelay == NextLoadedDelay(The(fragCurrent), partCurrent, env, l)
             IN  /\ FracLess(nextDelay, BufferStarvationDelay(env))
                 /\ FracLess(nextDelay, FragLoadedDelay(The(fragCurrent), partCurrent, env))
        /\ Tick(env))
         => out'.abort]_vars

\* ------------------------------------------------------------------------
\* The default rule read on live and on-demand streams, with a short and a
\* long buffer, before and after a bitrate-test fragment (whose FRAG_LOADED
\* sets bitrateTestDelay) and an ordinary fragment.  hist is the
\* environment of the latest read.
BudgetData ==
  { <<Fragment(0, 0, "main", TRUE, StatsWhole), Whole>>,
    <<Fragment(1, 1, "main", FALSE, StatsWhole), Whole>> }
BudgetEnvs ==
  { [ReadBase EXCEPT !.bandwidthEstimate = bw, !.bufferLen = len, !.live = live] :
      bw \in {200000, 1000000, 4000000}, len \in {0, 5, 40}, live \in BOOLEAN }

BudgetRead(renv) == getNextAutoLevel(renv) /\ hist' = Some(renv)

NextBudget ==
  \/ \E d \in BudgetData : FRAG_LOADING(d[1], d[2]) /\ UNCHANGED hist
  \/ \E d \in BudgetData : FRAG_LOADED(d[1], d[2]) /\ UNCHANGED hist
  \/ \E d \in BudgetData : FRAG_BUFFERED(d[1], d[2]) /\ UNCHANGED hist
  \/ \E renv \in BudgetEnvs : BudgetRead(renv)

InitBudget == InitWith({"other"}) /\ hist = Null
SpecBudget == InitBudget /\ [][NextBudget]_vars

\* level i has the current codec set and a maxBitrate below the adjusted
\* bandwidth (0.8 of the estimate, 0.7 for a level above the current one)
Eligible(renv, i) ==
  LET factor == IF i <= lastLoadedFragLevel THEN abrBandWidthFactor
                                            ELSE abrBandWidthUpFactor
  IN  /\ i \in renv.minAutoLevel .. renv.maxAutoLevel
      /\ LevelAt(i).codecSet = LevelAt(lastLoadedFragLevel).codecSet
      /\ (LevelAt(i).maxBitrate \div 1000) * factor[2]
           < factor[1] * (renv.bandwidthEstimate \div 1000)

\* fetching a fragment of level i takes less than the buffer lasts, or its
\* duration is unknown (0)
WithinBudget(renv, i) ==
  LET factor == IF i <= lastLoadedFragLevel THEN abrBandWidthFactor
                                            ELSE abrBandWidthUpFactor
      avgDuration == IF renv.avgDuration # 0 THEN renv.avgDuration
                                             ELSE CurrentFragDuration
      budget == ReadStarvationDelay(renv)
  IN  \/ avgDuration = 0
      \/ (LevelAt(i).maxBitrate \div 1000) * avgDuration * factor[2] * budget[2]
           < budget[1] * factor[1] * (renv.bandwidthEstimate \div 1000)

Highest(S) == IF S = {} THEN -1 ELSE CHOOSE i \in S : \A j \in S : j <= i

\* the first findBestLevel call of getNextABRAutoLevel
FirstBestLevel(renv) ==
  findBestLevel(renv, ReadStarvationDelay(renv), abrBandWidthFactor, abrBandWidthUpFactor)

\* a read that the default rule answered, with the environment in hist'
IsBudgetRead == out'.op = "get nextAutoLevel" /\ ~ReturnsForced /\ hist' # Null

\* C28 as stated: findBestLevel accepts a level whose adjusted bandwidth
\* exceeds its maxBitrate whatever the fetch duration when the current
\* level is live or bitrateTestDelay > 0, and holds the fetch duration
\* against the budget only when neither is the case.
C28_LiveOrTestExempt ==
  [][IsBudgetRead =>
       LET renv == The(hist')
           first == FirstBestLevel(renv)
       IN  IF renv.live \/ bitrateTestDelay > 0
             THEN first = Highest({i \in LevelIds : Eligible(renv, i)})
             ELSE first = Highest({i \in LevelIds : Eligible(renv, i) /\ WithinBudget(renv, i)})]_vars

\* C28, amended: the fetch duration is disregarded exactly when the current
\* level is live and no bitrate test is pending (bitrateTestDelay = 0);
\* otherwise, a pending bitrate test on a live stream included, the level
\* must also fetch within the budget (or have an unknown fetch duration).
\* A level found this way is the level the read decides.
C28_LiveWithoutTestExempt ==
  [][IsBudgetRead =>
       LET renv == The(hist')
           first == FirstBestLevel(renv)
       IN  /\ IF renv.live /\ bitrateTestDelay = 0
                THEN first = Highest({i \in LevelIds : Eligible(renv, i)})
                ELSE first = Highest({i \in LevelIds : Eligible(renv, i) /\ WithinBudget(renv, i)})
           /\ first >= 0 => The(out'.in).decision = first]_vars

\* a live stream read while a bitrate test is pending: level 1 is within
\* the bandwidth but not within the budget of 0.5 s, and level 0 is decided
C28_Witness ==
  /\ out.op = "get nextAutoLevel" /\ hist # Null /\ out.in # Null
  /\ The(hist).live /\ bitrateTestDelay > 0 /\ fragCurrent # Null
  /\ Eligible(The(hist), 1) /\ ~WithinBudget(The(hist), 1)
  /\ The(out.in).decision = 0

\* ------------------------------------------------------------------------
\* One StallionRule called for main and audio fragments, live and on
\* demand, with two throughputs and two latencies.  hist holds the rule,
\* the samples of its live calls for main fragments in arrival order, and
\* the number of calls made.
MaxCalls == 5
WindowEnvs ==
  { [ReadBase EXCEPT !.bandwidthEstimate = bw, !.latency = latency, !.isLive = live] :
      bw \in {200000, 4000000}, latency \in {25, 40}, live \in BOOLEAN }

WindowCall(mediaType, renv) ==
  /\ hist.calls < MaxCalls
  /\ LET kept == mediaType # "audio" /\ renv.isLive
     IN  hist' = [rule |-> StallionGetMaxIndexFor(hist.rule, mediaType, renv).rule,
                  throughputs |-> IF kept THEN Append(hist.throughputs,
                                                      renv.bandwidthEstimate \div 1000)
                                          ELSE hist.throughputs,
                  latencies |-> IF kept THEN Append(hist.latencies, renv.latency)
                                        ELSE hist.latencies,
                  calls |-> hist.calls + 1]
  /\ UNCHANGED <<orchVars, ruleVars, out>>

NextWindows == \E mediaType \in {"main", "audio"}, renv \in WindowEnvs : WindowCall(mediaType, renv)

InitWindows ==
  /\ InitWith({"StallionRule"})
  /\ hist = [rule |-> NewStallionRule, throughputs |-> <<>>, latencies |-> <<>>, calls |-> 0]
SpecWindows == InitWindows /\ [][NextWindows]_vars

\* C29: a getMaxIndex call on a stream that is not live leaves the
\* throughput window and the latency window as they were, whatever they
\* held before.
C29_VodCallIsPure ==
  [][\A renv \in WindowEnvs :
       (~renv.isLive /\ WindowCall("main", renv)) => hist'.rule = hist.rule]_vars

IsSuffix(arr, all) ==
  Len(arr) <= Len(all) /\ arr = SubSeq(all, Len(all) - Len(arr) + 1, Len(all))

\* C30: after every getMaxIndex call the throughput window holds at most 3
\* samples and the latency window at most 4, and they are the most recent
\* samples in arrival order; a call for an audio fragment adds no sample.
C30_WindowsBounded ==
  /\ [](/\ Len(hist.rule.throughputArr) <= 3
        /\ Len(hist.rule.latencyArr) <= 4
        /\ IsSuffix(hist.rule.throughputArr, hist.throughputs)
        /\ IsSuffix(hist.rule.latencyArr, hist.latencies))
  /\ [][\A renv \in WindowEnvs : WindowCall("audio", renv) => hist'.rule = hist.rule]_vars

\* five live calls: both windows are full and have slid
C30_Witness ==
  /\ hist.calls = 5 /\ Len(hist.throughputs) = 5
  /\ hist.rule.throughputArr = SubSeq(hist.throughputs, 3, 5)
  /\ hist.rule.latencyArr = SubSeq(hist.latencies, 2, 5)
  /\ hist.throughputs[1] # hist.throughputs[4]

\* ---------------------------------------------------------------------------
\* LlamaABR: the value of harmonicMean

\* harmonicMean (kbit/s, a fraction) as getMaxIndex computes it from the
\* queue of reciprocals: reduce without an initial value starts from the
\* first element 1/t1 and adds 1/b = t for every further element b = 1/t,
\* then harmonicMean = 1 / (sum / sampleSize).  A first throughput of 0 is
\* stored as Infinity and gives 0.  HarmonicMeanAbove is the comparison of
\* this value with a bit rate.
LlamaHarmonicMean(q) ==
  LET n == Len(q)
      first == Head(q)
      rest == SeqSum(Tail(q))
  IN  IF first = 0 THEN <<0, 1>> ELSE Frac(n * first, 1 + first * rest)

\* N / sum(1/t_i) over the throughputs t_i > 0 of a queue
Reciprocals(q) == [i \in 1 .. Len(q) |-> <<1, q[i]>>]
HarmonicMeanOf(q) ==
  LET s == FracSum(Reciprocals(q)) IN Frac(Len(q) * s[2], s[1])

\* C31: on every sampled call of LlamaABR.getMaxIndex the value compared
\* with bitrate[current + 1] for the switch up is N / sum(1/t_i) over the N
\* (<= 10) throughputs held in the ring.
C31_HarmonicMeanOfRing ==
  [][SampledRead =>
       LET q == The(llama').harmonicMeanQ
       IN  /\ Len(q) \in 1 .. HARMONIC_MEAN_SIZE
           /\ LlamaHarmonicMean(q) = HarmonicMeanOf(q)]_vars

\* ---------------------------------------------------------------------------
\* L2A in the steady state: the stepwise ascent

\* temp.indexOf(Math.min(...temp)) of a steady decision (-1 when Q is not
\* finite, see L2ASteady)
SteadyArgMin(rule, renv) ==
  IF rule.Q.kind = "notFinite" THEN -1 ELSE L2AArgMin(L2AWeights(rule, renv))

AscentData == { Fragment(0, level, "main", FALSE, StatsWhole) : level \in LevelIds }
\* w after the projection: the corners of the simplex and two edge points
AscentWeights == { <<10, 0, 0>>, <<0, 10, 0>>, <<0, 0, 10>>, <<5, 0, 5>>, <<0, 5, 5>> }
\* reads with the estimate below the ladder, on bitrate[1] and above the
\* ladder; the read on bitrate[1] plays at double speed, so that no read is
\* the fixed point of Pinned and w is the read's
AscentReads ==
  { [ReadBase EXCEPT !.bandwidthEstimate = bw, !.w = w,
                     !.playbackRate = IF bw = LevelAt(1).bitrate THEN 20 ELSE 10] :
      bw \in {200000, LevelAt(1).bitrate, 4000000}, w \in AscentWeights }

AscentRead(renv) == getNextAutoLevel(renv) /\ hist' = Some(renv)

NextAscent ==
  \/ \E frag \in AscentData : FRAG_LOADING(frag, Whole) /\ UNCHANGED hist
  \/ \E frag \in AscentData : FRAG_LOADED(frag, Whole) /\ UNCHANGED hist
  \/ \E renv \in AscentReads : AscentRead(renv)

InitAscent == InitWith({"L2ARule"}) /\ hist = Null
SpecAscent == InitAscent /\ [][NextAscent]_vars

\* C32: in a STEADY decision of L2A whose argmin quality exceeds lastQuality
\* while bitrate[lastQuality + 1] <= throughput, getMaxIndex returns exactly
\* lastQuality + 1, and lastQuality is then the returned quality.
C32_OneStepAscent ==
  [][\A renv \in AscentReads :
       (/\ l2aRule # Null /\ The(l2aRule).state = L2A_STATE_STEADY
        /\ SteadyArgMin(The(l2aRule), renv) > The(l2aRule).lastQuality
        /\ LevelAt(The(l2aRule).lastQuality + 1).bitrate <= renv.bandwidthEstimate
        /\ AscentRead(renv))
         => /\ out'.in # Null
            /\ The(out'.in).decision = The(l2aRule).lastQuality + 1
            /\ The(l2aRule').lastQuality = The(out'.in).decision]_vars

\* a steady read with w on the top level and the throughput on bitrate[1]
\* that found lastQuality = 0 decided level 1: the argmin is 2, and only the
\* ascent returns another quality than the argmin
C32_Witness ==
  /\ out.op = "get nextAutoLevel" /\ out.in # Null /\ The(out.in).decision = 1
  /\ hist # Null /\ The(hist).w = <<0, 0, 10>>
  /\ The(hist).bandwidthEstimate = LevelAt(1).bitrate
  /\ l2aRule # Null /\ The(l2aRule).state = L2A_STATE_STEADY
  /\ The(l2aRule).prev_w = <<0, 0, 10>> /\ The(l2aRule).lastQuality = 1

\* ---------------------------------------------------------------------------
\* LearningAbrController.getNextQuality called repeatedly on one controller

MaxUpdates == 4

\* throughput in bits/s, buffer and segment duration in tenths of a second,
\* the level played and the throughput weight the selector would choose
DownShiftCalls ==
  [throughput : {0, 200000, 300000, 500000, 750000, 1000000, 4000000},
   buffer : {0, 10, 40}, segmentDuration : {20}, currentQualityIndex : LevelIds,
   w0 : {1, 5}]

DownShiftCall(c) ==
  /\ hist.ctrl.updates < MaxUpdates
  /\ hist' = [ctrl |-> getNextQualityLeaves(hist.ctrl, c.throughput, c.buffer,
                                            c.segmentDuration, c.currentQualityIndex, c.w0),
              call |-> Some(c),
              ret |-> Some(getNextQuality(c.throughput, c.buffer, c.segmentDuration,
                                          c.currentQualityIndex, c.w0))]
  /\ out' = Quiet("getNextQuality")
  /\ UNCHANGED <<orchVars, ruleVars>>

NextDownShift == \E c \in DownShiftCalls : DownShiftCall(c)

InitDownShift ==
  /\ InitWith({"LoLp"})
  /\ hist = [ctrl |-> LearningAbrControllerNew, call |-> Null, ret |-> Null]
SpecDownShift == InitDownShift /\ [][NextDownShift]_vars

\* the level of the highest bitrate strictly below both the current level's
\* bitrate and the throughput, the current level when there is none
HighestBelow(current, throughput) ==
  LET S == { i \in LevelIds : /\ LevelAt(i).bitrate < LevelAt(current).bitrate
                              /\ LevelAt(i).bitrate < throughput }
  IN  IF S = {} THEN current
      ELSE CHOOSE i \in S : \A j \in S : LevelAt(j).bitrate <= LevelAt(i).bitrate

\* C33: when currentBuffer - downloadTime(current neuron) < bufferMin,
\* getNextQuality returns the index of the highest-bitrate neuron strictly
\* below the current bitrate and strictly below the throughput (the current
\* index when there is none), never a higher level, and leaves the neurons'
\* state and the stored weights as they were.
C33_LowBufferDownShift ==
  [][\A c \in DownShiftCalls :
       (/\ BufferLowFor(LevelAt(c.currentQualityIndex).bitrate, c.buffer,
                        c.segmentDuration, c.throughput)
        /\ DownShiftCall(c))
         => /\ hist'.ret = Some(HighestBelow(c.currentQualityIndex, c.throughput))
            /\ The(hist'.ret) <= c.currentQualityIndex
            /\ hist'.ctrl.weights = hist.ctrl.weights
            /\ hist'.ctrl.updates = hist.ctrl.updates
            /\ hist.ctrl.somBitrateNeurons # Null => hist'.ctrl = hist.ctrl]_vars

\* a controller whose neurons were trained and whose weights are stored has
\* just answered a call at level 2 with a low buffer and a throughput
\* between bitrate[0] and bitrate[1] with level 0
C33_Witness ==
  /\ hist.call # Null /\ hist.ret = Some(0)
  /\ The(hist.call).currentQualityIndex = 2 /\ The(hist.call).throughput = 500000
  /\ The(hist.call).buffer = 10
  /\ hist.ctrl.updates > 0 /\ hist.ctrl.weights # Null

\* ---------------------------------------------------------------------------
\* The L2A rule on a ladder of one bitrate

L2A_STATE_ONE_BITRATE == 0
OneBitrate == LevelAt(0).bitrate

\* what a call of getMaxIndex meets: the estimate below, on and above the
\* only bitrate, the buffer below and above B_target, the latency on the
\* target and more than a fragment off it, a live stream, with or without
\* a current fragment (2 s long)
OneBitrateCalls ==
  [bandwidthEstimate : {200000, OneBitrate, 4000000}, bufferLen : {0, 20},
   latency : {15, 40}, fragCurrent : BOOLEAN]
OneBitrateFragment == Fragment(0, 0, "main", FALSE, StatsWhole)

\* L2ARule.getMaxIndex with hls.levels of length 1 (currentQuality is 0,
\* getQualityForBitrate returns 0 on every path, w has one component and
\* its projection is 1 whenever Q is finite)
OneBitrateGetMaxIndex(rule, c) ==
  IF rule.state = L2A_STATE_ONE_BITRATE THEN [quality |-> 0, rule |-> rule]
  ELSE IF rule.state = L2A_STATE_STARTUP
    THEN IF ~c.fragCurrent \/ Abs(c.latency - ReadBase.targetLatency) >= OneBitrateFragment.duration
           THEN [quality |-> 0, rule |-> rule]
           ELSE [quality |-> 0,
                 rule |-> IF rule.lastSegmentDurationS # Null /\ c.bufferLen >= B_target
                            THEN [rule EXCEPT !.lastQuality = 0,
                                              !.state = L2A_STATE_STEADY,
                                              !.Q = QPow2(0), !.prev_w = <<10>>]
                            ELSE [rule EXCEPT !.lastQuality = 0]]
  ELSE IF rule.Q.kind = "notFinite"
    THEN [quality |-> -1,
          rule |-> [rule EXCEPT !.lastQuality = -1, !.prev_w = NaNVector(1)]]
  ELSE LET lastthroughput == Max(c.bandwidthEstimate, 1000)
           Q == IF c.bandwidthEstimate = OneBitrate THEN rule.Q ELSE QFinite
       IN  [quality |-> 0,
            rule |-> [rule EXCEPT !.lastQuality = 0, !.prev_w = <<10>>,
                                  !.Q = IF OneBitrate >= lastthroughput
                                          THEN Recalibrated(Q) ELSE Q]]

\* _L2AAbr: the rule is created by the first read
OneBitrateRead(c) ==
  LET r == OneBitrateGetMaxIndex(IF hist.rule = Null THEN NewL2ARule ELSE The(hist.rule), c)
  IN  /\ hist' = [rule |-> Some(r.rule), ret |-> Some(r.quality)]
      /\ out' = Quiet("getMaxIndex")
      /\ UNCHANGED <<orchVars, ruleVars>>

OneBitrateLoaded ==
  /\ hist.rule # Null
  /\ hist' = [hist EXCEPT !.rule = Some(_onMediaFragmentLoaded(The(hist.rule), OneBitrateFragment))]
  /\ out' = Quiet("FRAG_LOADED")
  /\ UNCHANGED <<orchVars, ruleVars>>

OneBitrateStalled ==
  /\ hist.rule # Null
  /\ hist' = [hist EXCEPT !.rule = Some(_onPlaybackSeeking(The(hist.rule), "bufferStalledError"))]
  /\ out' = Quiet("ERROR")
  /\ UNCHANGED <<orchVars, ruleVars>>

NextOneBitrate ==
  \/ \E c \in OneBitrateCalls : OneBitrateRead(c)
  \/ OneBitrateLoaded
  \/ OneBitrateStalled

InitOneBitrate == InitWith({"L2ARule"}) /\ hist = [rule |-> Null, ret |-> Null]
SpecOneBitrate == InitOneBitrate /\ [][NextOneBitrate]_vars

\* C34: on a ladder of one bitrate the L2A rule's state is ONE_BITRATE from
\* creation on, never STARTUP or STEADY, and getMaxIndex always returns
\* currentQuality (level 0).
C34_HeldInOneBitrate ==
  /\ hist.rule # Null => The(hist.rule).state = L2A_STATE_ONE_BITRATE
  /\ hist.ret # Null => The(hist.ret) = 0

\* ---------------------------------------------------------------------------
\* A level forced by an emergency abort and the FRAG_LOADED events after it.
\* hist.forced is the level the last abort forced, hist.lifted whether a
\* main fragment with a numeric sn was loaded since.

CapData ==
  { Fragment(0, 2, "main", FALSE, StatsWhole), Fragment(1, 1, "main", FALSE, StatsWhole),
    Fragment(1, 0, "main", TRUE, StatsWhole), Fragment(InitSegment, 0, "main", FALSE, StatsWhole),
    Fragment(0, 0, "audio", FALSE, StatsWhole) }
CapEnvs == { TickOnTime, TickBehind, [TickBehind EXCEPT !.minAutoLevel = 1] }
CapReads == { [ReadBase EXCEPT !.bandwidthEstimate = bw] : bw \in {200000, 4000000} }

LiftsCap(frag) == frag.type = "main" /\ frag.sn # InitSegment

CapLoading(frag) == FRAG_LOADING(frag, Whole) /\ UNCHANGED hist
CapLoaded(frag) ==
  /\ FRAG_LOADED(frag, Whole)
  /\ hist' = IF LiftsCap(frag) /\ hist.forced # Null THEN [hist EXCEPT !.lifted = TRUE]
                                                     ELSE hist
CapTick(env) ==
  /\ Tick(env)
  /\ hist' = IF out'.abort THEN [forced |-> Some(_nextAutoLevel'), lifted |-> FALSE]
                           ELSE hist
CapRead(renv) == getNextAutoLevel(renv) /\ UNCHANGED hist

NextCap ==
  \/ \E frag \in CapData : CapLoading(frag)
  \/ \E frag \in CapData : CapLoaded(frag)
  \/ \E env \in CapEnvs : CapTick(env)
  \/ \E renv \in CapReads : CapRead(renv)

InitCap == InitWith({"other"}) /\ hist = [forced |-> Null, lifted |-> FALSE]
SpecCap == InitCap /\ [][NextCap]_vars

\* C35: FRAG_LOADED for a main fragment with a numeric sn leaves
\* _nextAutoLevel = -1 and lastLoadedFragLevel = frag.level; FRAG_LOADED for
\* a fragment that is not main or is the init segment changes neither.  So
\* a level forced by an emergency abort caps the reads up to the next such
\* FRAG_LOADED and no read after it.
C35_LoadedLiftsForcedLevel ==
  [][/\ \A frag \in CapData :
          (out'.op = "FRAG_LOADED" /\ CapLoaded(frag)) =>
             IF LiftsCap(frag)
               THEN _nextAutoLevel' = -1 /\ lastLoadedFragLevel' = frag.level
               ELSE UNCHANGED <<_nextAutoLevel, lastLoadedFragLevel>>
     /\ (out'.op = "get nextAutoLevel" /\ hist.forced # Null) =>
          IF hist.lifted
            THEN out'.in # Null /\ out'.ret = The(out'.in).decision
            ELSE out'.ret <= The(hist.forced)]_vars

\* a read after the abort was capped by the forced level 0, a main fragment
\* of level 2 was loaded, and the next read returned a level above the cap
C35_Witness ==
  /\ out.op = "get nextAutoLevel" /\ hist.forced = Some(0) /\ hist.lifted
  /\ _nextAutoLevel = -1 /\ lastLoadedFragLevel = 2
  /\ out.ret > 0

\* the forced level is in force: the state between the abort and the load
C35_Capped ==
  /\ out.op = "get nextAutoLevel" /\ hist.forced # Null /\ ~hist.lifted
  /\ _nextAutoLevel = The(hist.forced) /\ out.in # Null /\ The(out.in).decision > out.ret

\* ---------------------------------------------------------------------------
\* The intervals of the controller.  hist.intervals counts the intervals
\* that setInterval created and clearInterval has not cleared (clearTimer
\* clears the one whose handle this.timer holds); hist.last is the sn of the
\* fragment of the last FRAG_LOADING event.

TimerData ==
  { Fragment(0, 2, "main", FALSE, StatsWhole), Fragment(1, 1, "main", FALSE, StatsWhole),
    Fragment(2, 0, "audio", FALSE, StatsWhole) }
TimerErrors == {"fragLoadError", "fragLoadTimeOut", "bufferStalledError"}
TimerEnvs ==
  { TickOnTime, TickBehind, [TickBehind EXCEPT !.loader = FALSE],
    [TickBehind EXCEPT !.aborted = TRUE], [TickBehind EXCEPT !.media = FALSE] }

\* the step cleared the interval this.timer held
Cleared(h) == IF timer /\ ~timer' THEN [h EXCEPT !.intervals = @ - 1] ELSE h

TimerLoading(frag) ==
  /\ FRAG_LOADING(frag, Whole)
  /\ hist' = [intervals |-> IF registered /\ ArmsTimer(frag)
                              THEN hist.intervals + 1 ELSE hist.intervals,
              last |-> frag.sn]
TimerLoaded(frag) == FRAG_LOADED(frag, Whole) /\ hist' = Cleared(hist)
TimerError(details) == ERROR(details) /\ hist' = Cleared(hist)
TimerTick(env) == Tick(env) /\ hist' = Cleared(hist)
TimerDestroy == Destroy /\ hist' = Cleared(hist)

NextTimer ==
  \/ \E frag \in TimerData : TimerLoading(frag)
  \/ \E frag \in TimerData : TimerLoaded(frag)
  \/ \E details \in TimerErrors : TimerError(details)
  \/ \E env \in TimerEnvs : TimerTick(env)
  \/ TimerDestroy

InitTimer == InitWith({"other"}) /\ hist = [intervals |-> 0, last |-> -1]
SpecTimer == InitTimer /\ [][NextTimer]_vars

\* C36: in every reachable state of the orchestrator an armed timer implies
\* a fragCurrent that is not null, and at most one interval is armed: the
\* one this.timer holds (FRAG_LOADING while armed creates no second one).
C36_OneTimerWithFragment ==
  /\ timer => fragCurrent # Null
  /\ hist.intervals = IF timer THEN 1 ELSE 0

\* FRAG_LOADING of fragment sn 1 arrived while the timer was armed for
\* fragment sn 0: still one interval, still on fragment sn 0
C36_Witness ==
  /\ out.op = "FRAG_LOADING" /\ timer /\ hist.intervals = 1
  /\ hist.last = 1 /\ fragCurrent # Null /\ The(fragCurrent).sn = 0

\* C37: whenever a tick raises the emergency abort for a fragment of level
\* f, the level k it forces satisfies minAutoLevel <= k < f.
C37_ForcedLevelInRange ==
  [][(out'.op = "tick" /\ out'.abort)
       => /\ fragCurrent # Null /\ out'.in # Null
          /\ The(out'.in).minAutoLevel <= out'.nextLoadLevel
          /\ out'.nextLoadLevel < The(fragCurrent).level
          /\ _nextAutoLevel' = out'.nextLoadLevel]_vars

\* the abort of a fragment of level 2 without a loader forced minAutoLevel,
\* the lowest level of the range
C37_Witness ==
  /\ out.op = "tick" /\ out.abort /\ ~out.loaderAbort
  /\ fragCurrent # Null /\ The(fragCurrent).level = 2
  /\ out.nextLoadLevel = The(out.in).minAutoLevel /\ _nextAutoLevel = 0

\* ---------------------------------------------------------------------------
\* Stalls under the L2A rule.  hist.sinceStall: a stall has reset the rule
\* and the rule has observed no FRAG_LOADED of a main fragment since;
\* hist.bufferLen: the buffer the last read met (-1 before the first).

StallData ==
  { Fragment(0, 0, "main", FALSE, StatsWhole), Fragment(1, 2, "main", FALSE, StatsWhole),
    Fragment(0, 0, "audio", FALSE, StatsWhole) }
StallErrors == {"bufferStalledError", "fragLoadError"}
StallReads ==
  { [ReadBase EXCEPT !.bandwidthEstimate = 4000000, !.bufferLen = bufferLen] :
      bufferLen \in {0, 15, 20, 100} }

StallLoading(frag) == FRAG_LOADING(frag, Whole) /\ UNCHANGED hist
StallLoaded(frag) ==
  /\ FRAG_LOADED(frag, Whole)
  /\ hist' = IF L2AListening /\ frag.type = "main"
               THEN [hist EXCEPT !.sinceStall = FALSE] ELSE hist
StallError(details) ==
  /\ ERROR(details)
  /\ hist' = IF L2AListening /\ details = "bufferStalledError"
               THEN [hist EXCEPT !.sinceStall = TRUE] ELSE hist
StallRead(renv) ==
  /\ getNextAutoLevel(renv)
  /\ hist' = [hist EXCEPT !.bufferLen = renv.bufferLen]

NextStall ==
  \/ \E frag \in StallData : StallLoading(frag)
  \/ \E frag \in StallData : StallLoaded(frag)
  \/ \E details \in StallErrors : StallError(details)
  \/ \E renv \in StallReads : StallRead(renv)

InitStall == InitWith({"L2ARule"}) /\ hist = [sinceStall |-> FALSE, bufferLen |-> -1]
SpecStall == InitStall /\ [][NextStall]_vars

\* C38: after a BUFFER_STALLED_ERROR has reset the L2A state to STARTUP the
\* state is not STEADY again until the rule has observed a FRAG_LOADED of
\* that media type after the stall, whatever the buffer level.
C38_NoSteadyBeforeLoaded ==
  [](hist.sinceStall => (l2aRule # Null /\ The(l2aRule).state = L2A_STATE_STARTUP))

\* a rule that had been STEADY was reset by a stall and has since answered
\* a read with 10 s buffered, no main fragment loaded in between: STARTUP
C38_Witness ==
  /\ hist.sinceStall /\ out.op = "get nextAutoLevel" /\ hist.bufferLen = 100
  /\ l2aRule # Null /\ The(l2aRule).prev_w # <<>>
  /\ The(l2aRule).state = L2A_STATE_STARTUP

\* C39: in every reachable state of the L2A rule, state = STEADY implies
\* that lastSegmentDurationS is a number (not NaN) and that prev_w has one
\* entry per level of the ladder.
C39_SteadyHasDurationAndWeights ==
  (l2aRule # Null /\ The(l2aRule).state = L2A_STATE_STEADY)
    => /\ The(l2aRule).lastSegmentDurationS # Null
       /\ Len(The(l2aRule).prev_w) = NumLevels

\* a read of the outage found the rule STEADY and left it so, Q doubled
\* once: the duration is the loaded fragment's, prev_w the corner of level 0
C39_Witness ==
  /\ out.op = "get nextAutoLevel" /\ l2aRule # Null
  /\ The(l2aRule).state = L2A_STATE_STEADY
  /\ The(l2aRule).lastSegmentDurationS = Some(OutageFragment.duration)
  /\ The(l2aRule).prev_w = Corner(0)
  /\ The(l2aRule).Q = QPow2(1)

\* ---------------------------------------------------------------------------
\* The default decision under a restricted range of auto levels.  hist is
\* what the last read met.

FallbackData ==
  { Fragment(0, 0, "main", FALSE, StatsWhole), Fragment(1, 1, "main", FALSE, StatsWhole),
    Fragment(2, 2, "main", FALSE, StatsWhole) }
FallbackEnvs ==
  { [ReadBase EXCEPT !.bandwidthEstimate = bw, !.bufferLen = len, !.live = live,
                     !.minAutoLevel = min, !.maxAutoLevel = max] :
      bw \in {200000, 1000000, 4000000}, len \in {0, 40}, live \in BOOLEAN,
      min \in {0, 1}, max \in {1, 2} }

FallbackRead(renv) == getNextAutoLevel(renv) /\ hist' = Some(renv)

NextFallback ==
  \/ \E frag \in FallbackData : FRAG_LOADING(frag, Whole) /\ UNCHANGED hist
  \/ \E frag \in FallbackData : FRAG_LOADED(frag, Whole) /\ UNCHANGED hist
  \/ \E renv \in FallbackEnvs : FallbackRead(renv)

InitFallback == InitWith({"other"}) /\ hist = Null
SpecFallback == InitFallback /\ [][NextFallback]_vars

\* C40: with an unknown rule tag the decision of getNextABRAutoLevel lies
\* within [minAutoLevel, maxAutoLevel], also when no level satisfies the
\* bandwidth and fetch-budget conditions.
C40_FallbackInAutoRange ==
  [][(out'.op = "get nextAutoLevel" /\ out'.in # Null /\ hist' # Null)
       => /\ The(hist').minAutoLevel <= The(out'.in).decision
          /\ The(out'.in).decision <= The(hist').maxAutoLevel]_vars

====
